---- MODULE Spec2Model ----
(***************************************************************************)
(* Model of bevy_basic_portals: the per-frame update of the portal         *)
(* cameras (src/src/portals/update.rs), the despawn policy                 *)
(* (src/src/portals/despawn.rs, src/src/portals/api.rs) and the pose       *)
(* arithmetic of the portal-camera transform.                              *)
(*                                                                         *)
(* Three specifications share the module's variables:                      *)
(*   Spec         the ECS world and the tick: external events between      *)
(*                ticks, then the systems of one frame in the schedule's   *)
(*                order;                                                   *)
(*   SpecPose     the pure pose functions applied to inputs drawn from     *)
(*                bounded sets;                                            *)
(*   SpecFrustum  get_frustum applied to inputs drawn from bounded sets.   *)
(*                                                                         *)
(* Numbers are exact rationals <<n, d>> (d > 0, lowest terms); <<0, 0>>    *)
(* stands for a non-finite f32 (inf or NaN), which every operation         *)
(* propagates. Binary rounding of f32 is not modelled.                     *)
(***************************************************************************)
EXTENDS Integers, Sequences, FiniteSets, TLC

\* ------------------------------------------------------------------ bounds
\* Number of PortalParts units in the world.
MaxUnits == 2
\* External events (despawns, component removals, moves, ...) per behaviour.
MaxEvents == 1
\* Largest coordinate of the poses drawn in SpecPose.
MaxCoord == 1
\* Largest uniform scale of the poses drawn in SpecPose.
MaxScale == 2
\* Changes of the window and of the portal assets per behaviour of SpecResize.
MaxResizeEvents == 2
\* Despawns and commands per behaviour of SpecCommand.
MaxCommandEvents == 2
\* Despawns by other systems per behaviour of SpecLegacy.
MaxLegacyEvents == 2

\* --------------------------------------------------------------- rationals
RECURSIVE Gcd(_, _)
Gcd(a, b) == IF b = 0 THEN a ELSE Gcd(b, a % b)

Abs(i) == IF i < 0 THEN -i ELSE i

NonFinite == <<0, 0>>

IsFinite(r) == r[2] # 0

\* n/d in lowest terms with a positive denominator; d = 0 is non-finite.
RNorm(n, d) ==
    IF d = 0 THEN NonFinite
    ELSE LET g == Gcd(Abs(n), Abs(d))
             s == IF d < 0 THEN -1 ELSE 1
         IN  <<(s * n) \div g, (s * d) \div g>>

RInt(i) == <<i, 1>>

RAdd(a, b) ==
    IF a[2] = 0 \/ b[2] = 0 THEN NonFinite
    ELSE IF a[2] = 1 /\ b[2] = 1 THEN <<a[1] + b[1], 1>>
    ELSE RNorm(a[1] * b[2] + b[1] * a[2], a[2] * b[2])

RNeg(a) == IF a[2] = 0 THEN NonFinite ELSE <<-a[1], a[2]>>

RSub(a, b) == RAdd(a, RNeg(b))

RMul(a, b) ==
    IF a[2] = 0 \/ b[2] = 0 THEN NonFinite
    ELSE IF a[2] = 1 /\ b[2] = 1 THEN <<a[1] * b[1], 1>>
    ELSE RNorm(a[1] * b[1], a[2] * b[2])

\* f32::recip: 1/0 is inf.
RRecip(a) == IF a[2] = 0 \/ a[1] = 0 THEN NonFinite ELSE RNorm(a[2], a[1])

RSignum(a) == IF a[2] = 0 THEN NonFinite ELSE IF a[1] < 0 THEN RInt(-1) ELSE RInt(1)

\* Exact integer square root; defined on perfect squares only.
ISqrt(n) == CHOOSE k \in 0..n : k * k = n

\* f32::sqrt on the rationals whose root is rational.
RSqrt(a) == IF a[2] = 0 \/ a[1] < 0 THEN NonFinite ELSE <<ISqrt(a[1]), ISqrt(a[2])>>

\* ----------------------------------------------------------------- vectors
V3(x, y, z) == <<RInt(x), RInt(y), RInt(z)>>

VZero == V3(0, 0, 0)

VAdd(a, b) == <<RAdd(a[1], b[1]), RAdd(a[2], b[2]), RAdd(a[3], b[3])>>

VSub(a, b) == <<RSub(a[1], b[1]), RSub(a[2], b[2]), RSub(a[3], b[3])>>

VNeg(a) == <<RNeg(a[1]), RNeg(a[2]), RNeg(a[3])>>

VScale(a, k) == <<RMul(a[1], k), RMul(a[2], k), RMul(a[3], k)>>

VDot(a, b) == RAdd(RAdd(RMul(a[1], b[1]), RMul(a[2], b[2])), RMul(a[3], b[3]))

VCross(a, b) ==
    <<RSub(RMul(a[2], b[3]), RMul(b[2], a[3])),
      RSub(RMul(a[3], b[1]), RMul(b[3], a[1])),
      RSub(RMul(a[1], b[2]), RMul(b[1], a[2]))>>

VLength(a) == RSqrt(VDot(a, a))

VIsFinite(a) == IsFinite(a[1]) /\ IsFinite(a[2]) /\ IsFinite(a[3])

\* ---------------------------------------------------------------- matrices
\* A Mat3 is its three columns <<x_axis, y_axis, z_axis>>.
MIdentity == <<V3(1, 0, 0), V3(0, 1, 0), V3(0, 0, 1)>>

MMulVec(m, v) == VAdd(VAdd(VScale(m[1], v[1]), VScale(m[2], v[2])), VScale(m[3], v[3]))

MMul(a, b) == <<MMulVec(a, b[1]), MMulVec(a, b[2]), MMulVec(a, b[3])>>

MTranspose(m) ==
    <<<<m[1][1], m[2][1], m[3][1]>>,
      <<m[1][2], m[2][2], m[3][2]>>,
      <<m[1][3], m[2][3], m[3][3]>>>>

MDeterminant(m) == VDot(m[3], VCross(m[1], m[2]))

\* Mat3::inverse: the cross products over the determinant, transposed. A zero
\* determinant gives a non-finite reciprocal, so a non-finite matrix.
MInverse(m) ==
    LET tmp0 == VCross(m[2], m[3])
        tmp1 == VCross(m[3], m[1])
        tmp2 == VCross(m[1], m[2])
        inv_det == RRecip(VDot(m[3], tmp2))
    IN  MTranspose(<<VScale(tmp0, inv_det), VScale(tmp1, inv_det), VScale(tmp2, inv_det)>>)

\* ------------------------------------------------ GlobalTransform (Affine3A)
Affine(m, t) == [matrix3 |-> m, translation |-> t]

AffineIdentity == Affine(MIdentity, VZero)

\* Affine3A * Affine3A
AffineMul(a, b) ==
    Affine(MMul(a.matrix3, b.matrix3),
           VAdd(MMulVec(a.matrix3, b.translation), a.translation))

\* Affine3A::inverse
AffineInverse(a) ==
    LET matrix3 == MInverse(a.matrix3)
    IN  Affine(matrix3, VNeg(MMulVec(matrix3, a.translation)))

\* GlobalTransform::transform_point
TransformPoint(a, p) == VAdd(MMulVec(a.matrix3, p), a.translation)

AffineIsFinite(a) ==
    /\ \A i \in 1..3 : VIsFinite(a.matrix3[i])
    /\ VIsFinite(a.translation)

\* ---------------------------------------------------------------- Transform
\* A Transform is translation, rotation and scale; the rotation (a unit
\* quaternion in the code) is held as the rotation matrix it stands for.
MkTransform(t, r, s) == [translation |-> t, rotation |-> r, scale |-> s]

\* Vec3::try_normalize / Dir3::new: None for a zero or non-finite vector.
TryNormalize(v) ==
    LET len == VLength(v)
    IN  IF ~IsFinite(len) \/ len[1] = 0 THEN <<>> ELSE VScale(v, RRecip(len))

\* Transform -> GlobalTransform (Affine3A::from_scale_rotation_translation)
ToGlobal(t) ==
    Affine(<<VScale(t.rotation[1], t.scale[1]),
             VScale(t.rotation[2], t.scale[2]),
             VScale(t.rotation[3], t.scale[3])>>,
           t.translation)

\* GlobalTransform::compute_transform (Affine3A::to_scale_rotation_translation)
ComputeTransform(a) ==
    LET det   == MDeterminant(a.matrix3)
        scale == <<RMul(VLength(a.matrix3[1]), RSignum(det)),
                   VLength(a.matrix3[2]),
                   VLength(a.matrix3[3])>>
    IN  MkTransform(a.translation,
                    <<VScale(a.matrix3[1], RRecip(scale[1])),
                      VScale(a.matrix3[2], RRecip(scale[2])),
                      VScale(a.matrix3[3], RRecip(scale[3]))>>,
                    scale)

\* Transform::forward and Transform::up: the rotation applied to -Z and to Y.
Forward(t) == VNeg(t.rotation[3])

Up(t) == t.rotation[2]

\* Transform::look_to: back = -direction, right = up x back, up = back x right;
\* a direction or up that cannot be normalized falls back to -Z or Y.
LookTo(t, direction, up) ==
    LET d     == TryNormalize(direction)
        back  == IF d = <<>> THEN V3(0, 0, 1) ELSE VNeg(d)
        u     == TryNormalize(up)
        up0   == IF u = <<>> THEN V3(0, 1, 0) ELSE u
        r     == TryNormalize(VCross(up0, back))
        \* any_orthonormal_vector is not reached for the poses drawn here
        right == IF r = <<>> THEN V3(1, 0, 0) ELSE r
    IN  [t EXCEPT !.rotation = <<right, VCross(back, right), back>>]

\* ------------------------------------------------------------- pose solver
\* Vec3::project_onto: rhs * self.dot(rhs) * rhs.dot(rhs).recip()
ProjectOnto(v, rhs) == VScale(VScale(rhs, VDot(v, rhs)), RRecip(VDot(rhs, rhs)))

mirror_vec(vec, mirror_normal) ==
    VSub(vec, VScale(ProjectOnto(vec, mirror_normal), RInt(2)))

\* The translation mirrored without being taken relative to the mirror's origin.
mirror_transform_about_world_origin(transform, mirror_translation, mirror_normal) ==
    LET moved == [transform EXCEPT !.translation =
                     VAdd(mirror_translation, mirror_vec(transform.translation, mirror_normal))]
    IN  LookTo(moved,
               mirror_vec(Forward(moved), mirror_normal),
               mirror_vec(Up(moved), mirror_normal))

mirror_transform(transform, mirror_translation, mirror_normal) ==
    LET moved == [transform EXCEPT !.translation =
                     VAdd(mirror_translation,
                          mirror_vec(VSub(transform.translation, mirror_translation),
                                     mirror_normal))]
    IN  LookTo(moved,
               mirror_vec(Forward(moved), mirror_normal),
               mirror_vec(Up(moved), mirror_normal))

\* The composition in the wrong order: main * portal^-1 * destination.
get_portal_camera_transform_swapped(main_camera_transform, portal_transform, destination_transform, mirror) ==
    AffineMul(AffineMul(main_camera_transform, AffineInverse(portal_transform)),
              destination_transform)

\* The portal pose composed without being inverted.
get_portal_camera_transform_no_inverse(main_camera_transform, portal_transform, destination_transform, mirror) ==
    AffineMul(AffineMul(destination_transform, portal_transform),
              main_camera_transform)

\* mirror is <<>> (None) or <<origin, normal>> in the destination's space.
get_portal_camera_transform(main_camera_transform, portal_transform, destination_transform, mirror) ==
    LET unmirrored ==
            AffineMul(AffineMul(destination_transform, AffineInverse(portal_transform)),
                      main_camera_transform)
    IN  IF mirror = <<>> THEN unmirrored
        ELSE ToGlobal(mirror_transform(
                 ComputeTransform(unmirrored),
                 TransformPoint(destination_transform, mirror[1]),
                 VSub(TransformPoint(destination_transform, mirror[2]),
                      destination_transform.translation)))

\* ----------------------------------------------------------------- frustum
\* A Vec4 is <<x, y, z, w>>; a Mat4 is its four rows.
Extend(v, w) == <<v[1], v[2], v[3], w>>

Xyz(v) == <<v[1], v[2], v[3]>>

V4Add(a, b) == <<RAdd(a[1], b[1]), RAdd(a[2], b[2]), RAdd(a[3], b[3]), RAdd(a[4], b[4])>>

V4Sub(a, b) == <<RSub(a[1], b[1]), RSub(a[2], b[2]), RSub(a[3], b[3]), RSub(a[4], b[4])>>

V4Scale(a, k) == <<RMul(a[1], k), RMul(a[2], k), RMul(a[3], k), RMul(a[4], k)>>

V4Dot(a, b) == RAdd(RAdd(RMul(a[1], b[1]), RMul(a[2], b[2])),
                    RAdd(RMul(a[3], b[3]), RMul(a[4], b[4])))

\* Vec3::normalize: self * self.length_recip()
Normalize(v) == VScale(v, RRecip(VLength(v)))

\* GlobalTransform::compute_matrix (Mat4::from(Affine3A))
ComputeMatrix(a) ==
    <<<<a.matrix3[1][1], a.matrix3[2][1], a.matrix3[3][1], a.translation[1]>>,
      <<a.matrix3[1][2], a.matrix3[2][2], a.matrix3[3][2], a.translation[2]>>,
      <<a.matrix3[1][3], a.matrix3[2][3], a.matrix3[3][3], a.translation[3]>>,
      <<RInt(0), RInt(0), RInt(0), RInt(1)>>>>

\* Mat4 * Mat4: row i of the product is the sum of the rows of b weighted by row i of a.
Mat4Mul(a, b) ==
    [i \in 1..4 |->
        V4Add(V4Add(V4Scale(b[1], a[i][1]), V4Scale(b[2], a[i][2])),
              V4Add(V4Scale(b[3], a[i][3]), V4Scale(b[4], a[i][4])))]

\* Mat4 * Vec4
Mat4MulVec(m, v) == <<V4Dot(m[1], v), V4Dot(m[2], v), V4Dot(m[3], v), V4Dot(m[4], v)>>

\* GlobalTransform::back and GlobalTransform::forward: the Z axis of the
\* matrix, normalized, and its opposite.
Back(a) == Normalize(a.matrix3[3])

GlobalForward(a) == VNeg(Back(a))

\* GlobalTransform::rotation: the rotation of to_scale_rotation_translation.
Rotation(a) == ComputeTransform(a).rotation

\* HalfSpace::new: the Vec4 (normal, d) divided by the length of the normal.
HalfSpaceNew(normal_d) == V4Scale(normal_d, RRecip(VLength(Xyz(normal_d))))

\* Frustum::from_clip_from_world_custom_far: left, right, bottom, top and
\* near from the rows of the matrix, far from the view's position and
\* backward direction.
from_clip_from_world_custom_far(clip_from_world, view_translation, view_backward, far) ==
    LET row3 == clip_from_world[4]
        far_center == VSub(view_translation, VScale(view_backward, far))
    IN  <<HalfSpaceNew(V4Add(row3, clip_from_world[1])),
          HalfSpaceNew(V4Sub(row3, clip_from_world[1])),
          HalfSpaceNew(V4Add(row3, clip_from_world[2])),
          HalfSpaceNew(V4Sub(row3, clip_from_world[2])),
          HalfSpaceNew(V4Sub(row3, clip_from_world[3])),
          HalfSpaceNew(Extend(view_backward, RNeg(VDot(view_backward, far_center))))>>

\* -------------------------------------------------------------- SpecFrustum
\* get_frustum applied to inputs drawn from bounded sets. The poses are
\* translated, rotated and scaled by non-zero factors; the projections have
\* rational planes.
R4(a, b, c, d) == <<a, b, c, d>>

\* Mat4::perspective_infinite_reverse_rh with 1/tan(fov/2) = 4/3, aspect ratio
\* 16/9 and near 1/10; far 1000.
PerspectiveProjection ==
    [clip_from_view |->
        <<R4(RNorm(3, 4), RInt(0), RInt(0), RInt(0)),
          R4(RInt(0), RNorm(4, 3), RInt(0), RInt(0)),
          R4(RInt(0), RInt(0), RInt(0), RNorm(1, 10)),
          R4(RInt(0), RInt(0), RInt(-1), RInt(0))>>,
     far |-> RInt(1000)]

\* Mat4::orthographic_rh over the area -1..1 by -1..1 with near 0 and far 10
\* (far and near swapped for the reversed depth).
OrthographicProjection ==
    [clip_from_view |->
        <<R4(RInt(1), RInt(0), RInt(0), RInt(0)),
          R4(RInt(0), RInt(1), RInt(0), RInt(0)),
          R4(RInt(0), RInt(0), RNorm(1, 10), RInt(1)),
          R4(RInt(0), RInt(0), RInt(0), RInt(1))>>,
     far |-> RInt(10)]

Projections == {PerspectiveProjection, OrthographicProjection}

\* The 0.00001 the half-space plane is pushed back by.
Epsilon == RNorm(1, 100000)

\* f32::is_sign_positive
IsSignPositive(r) == IsFinite(r) /\ r[1] >= 0

NoFrustum == [kind |-> "MaskedImageNoFrustum"]

\* half_space is <<>> (None) or <<h>>, h a HalfSpace in the destination's space.
HalfSpaceFrustum(half_space, switch_normal) ==
    [kind |-> "MaskedImageHalfSpaceFrustum", half_space |-> half_space,
     switch_normal |-> switch_normal]

SphereHalfSpaceFrustum(origin, distance) ==
    [kind |-> "MaskedImageSphereHalfSpaceFrustum", origin |-> origin, distance |-> distance]

\* impl Default for PortalMode
DefaultPortalMode == HalfSpaceFrustum(<<>>, FALSE)

\* The plane put through the camera's position instead of the destination's.
near_half_space_of_half_space_through_camera(half_space, switch_normal, portal_camera_transform, destination_transform) ==
    LET given == half_space # <<>>
        normal0 == IF given
                   THEN MMulVec(Rotation(destination_transform), Xyz(half_space[1]))
                   ELSE GlobalForward(destination_transform)
        half_space_d == IF given THEN half_space[1][4] ELSE RInt(0)
        near_half_space_normal ==
            IF /\ switch_normal
               /\ IsSignPositive(VDot(normal0,
                      VSub(portal_camera_transform.translation,
                           destination_transform.translation)))
            THEN VNeg(normal0) ELSE normal0
        dot == VDot(portal_camera_transform.translation, Normalize(near_half_space_normal))
        near_half_space_distance == RSub(RNeg(RAdd(dot, half_space_d)), Epsilon)
    IN  HalfSpaceNew(Extend(near_half_space_normal, near_half_space_distance))

\* With no half-space given, the normal is the destination's backward axis.
near_half_space_of_half_space_default_backward(half_space, switch_normal, portal_camera_transform, destination_transform) ==
    LET given == half_space # <<>>
        normal0 == IF given
                   THEN MMulVec(Rotation(destination_transform), Xyz(half_space[1]))
                   ELSE Back(destination_transform)
        half_space_d == IF given THEN half_space[1][4] ELSE RInt(0)
        near_half_space_normal ==
            IF /\ switch_normal
               /\ IsSignPositive(VDot(normal0,
                      VSub(portal_camera_transform.translation,
                           destination_transform.translation)))
            THEN VNeg(normal0) ELSE normal0
        dot == VDot(destination_transform.translation, Normalize(near_half_space_normal))
        near_half_space_distance == RSub(RNeg(RAdd(dot, half_space_d)), Epsilon)
    IN  HalfSpaceNew(Extend(near_half_space_normal, near_half_space_distance))

\* The normal is switched only when the camera is strictly on its positive
\* side: not when the camera is in the plane through the destination's origin.
near_half_space_of_half_space_switch_strictly(half_space, switch_normal, portal_camera_transform, destination_transform) ==
    LET given == half_space # <<>>
        normal0 == IF given
                   THEN MMulVec(Rotation(destination_transform), Xyz(half_space[1]))
                   ELSE GlobalForward(destination_transform)
        half_space_d == IF given THEN half_space[1][4] ELSE RInt(0)
        side == VDot(normal0, VSub(portal_camera_transform.translation,
                                   destination_transform.translation))
        near_half_space_normal ==
            IF switch_normal /\ IsFinite(side) /\ side[1] > 0
            THEN VNeg(normal0) ELSE normal0
        dot == VDot(destination_transform.translation, Normalize(near_half_space_normal))
        near_half_space_distance == RSub(RNeg(RAdd(dot, half_space_d)), Epsilon)
    IN  HalfSpaceNew(Extend(near_half_space_normal, near_half_space_distance))

\* The near half-space of MaskedImageHalfSpaceFrustum((half_space, switch_normal)).
near_half_space_of_half_space(half_space, switch_normal, portal_camera_transform, destination_transform) ==
    LET given == half_space # <<>>
        normal0 == IF given
                   THEN MMulVec(Rotation(destination_transform), Xyz(half_space[1]))
                   ELSE GlobalForward(destination_transform)
        half_space_d == IF given THEN half_space[1][4] ELSE RInt(0)
        near_half_space_normal ==
            IF /\ switch_normal
               /\ IsSignPositive(VDot(normal0,
                      VSub(portal_camera_transform.translation,
                           destination_transform.translation)))
            THEN VNeg(normal0) ELSE normal0
        dot == VDot(destination_transform.translation, Normalize(near_half_space_normal))
        near_half_space_distance == RSub(RNeg(RAdd(dot, half_space_d)), Epsilon)
    IN  HalfSpaceNew(Extend(near_half_space_normal, near_half_space_distance))

\* The plane put on the far side of the sphere: the radius added, not subtracted.
near_half_space_of_sphere_far_side(origin, distance, portal_camera_transform, destination_transform) ==
    LET near_half_space_normal == GlobalForward(portal_camera_transform)
        sphere_tangeant_point ==
            VAdd(VAdd(destination_transform.translation, origin),
                 VScale(near_half_space_normal, distance))
        near_half_space_distance == RNeg(VDot(sphere_tangeant_point, near_half_space_normal))
    IN  HalfSpaceNew(Extend(near_half_space_normal, near_half_space_distance))

\* The near half-space of MaskedImageSphereHalfSpaceFrustum((origin, distance)).
near_half_space_of_sphere(origin, distance, portal_camera_transform, destination_transform) ==
    LET near_half_space_normal == GlobalForward(portal_camera_transform)
        sphere_tangeant_point ==
            VSub(VAdd(destination_transform.translation, origin),
                 VScale(near_half_space_normal, distance))
        near_half_space_distance == RNeg(VDot(sphere_tangeant_point, near_half_space_normal))
    IN  HalfSpaceNew(Extend(near_half_space_normal, near_half_space_distance))

\* The custom plane written over the far half-space instead of the near one.
get_frustum_replaces_far(portal_camera, portal_camera_transform, destination_transform, projection) ==
    LET native == from_clip_from_world_custom_far(
                      Mat4Mul(projection.clip_from_view,
                              ComputeMatrix(AffineInverse(portal_camera_transform))),
                      portal_camera_transform.translation,
                      Back(portal_camera_transform), projection.far)
        mode == portal_camera.portal_mode
    IN  IF mode.kind = "MaskedImageHalfSpaceFrustum"
        THEN [native EXCEPT ![6] =
                 near_half_space_of_half_space(mode.half_space, mode.switch_normal,
                     portal_camera_transform, destination_transform)]
        ELSE IF mode.kind = "MaskedImageSphereHalfSpaceFrustum"
        THEN [native EXCEPT ![6] =
                 near_half_space_of_sphere(mode.origin, mode.distance,
                     portal_camera_transform, destination_transform)]
        ELSE native

\* A Projection is its clip_from_view matrix and its far distance.
\* half_spaces[4] of the code is element 5 here, half_spaces[5] element 6.
get_frustum(portal_camera, portal_camera_transform, destination_transform, projection) ==
    LET view_projection ==
            Mat4Mul(projection.clip_from_view,
                    ComputeMatrix(AffineInverse(portal_camera_transform)))
        native == from_clip_from_world_custom_far(view_projection,
                      portal_camera_transform.translation,
                      Back(portal_camera_transform), projection.far)
        mode == portal_camera.portal_mode
    IN  IF mode.kind = "MaskedImageHalfSpaceFrustum"
        THEN [native EXCEPT ![5] =
                 near_half_space_of_half_space(mode.half_space, mode.switch_normal,
                     portal_camera_transform, destination_transform)]
        ELSE IF mode.kind = "MaskedImageSphereHalfSpaceFrustum"
        THEN [native EXCEPT ![5] =
                 near_half_space_of_sphere(mode.origin, mode.distance,
                     portal_camera_transform, destination_transform)]
        ELSE native

\* A Frustum in the world: the system that wrote it, and the arguments of
\* get_frustum it is the value of.
DefaultFrustum == [by |-> "default"]

ComputedFrustum(by, portal_camera, portal_camera_transform, destination_transform, proj) ==
    [by |-> by, portal_camera |-> portal_camera,
     portal_camera_transform |-> portal_camera_transform,
     destination_transform |-> destination_transform, projection |-> proj]

\* ------------------------------------------------------ despawn strategies
Kinds == {"main_camera", "portal", "destination", "portal_camera"}

Policies == {"WarnThenDespawnWithChildren", "DespawnWithChildren",
             "WarnThenDespawnEntity", "DespawnEntity", "Leave", "Panic"}

should_panic(p) == p = "Panic"

should_despawn(p) == p # "Leave" /\ p # "Panic"

should_despawn_children(p) == p = "WarnThenDespawnWithChildren" \/ p = "DespawnWithChildren"

should_warn(p) == p = "WarnThenDespawnWithChildren" \/ p = "WarnThenDespawnEntity"

MkStrategy(mc, po, de, pc) ==
    [main_camera |-> mc, portal |-> po, destination |-> de, portal_camera |-> pc]

DESPAWN_AND_WARN ==
    MkStrategy("Leave", "WarnThenDespawnEntity", "WarnThenDespawnEntity", "WarnThenDespawnEntity")

PANIC == MkStrategy("Leave", "Panic", "Panic", "Panic")

DESPAWN_SILENTLY == MkStrategy("Leave", "DespawnEntity", "DespawnEntity", "DespawnEntity")

DESPAWN_WITH_CHILDREN_SILENTLY ==
    MkStrategy("Leave", "DespawnWithChildren", "DespawnWithChildren", "DespawnWithChildren")

Predefined == {DESPAWN_AND_WARN, PANIC, DESPAWN_SILENTLY, DESPAWN_WITH_CHILDREN_SILENTLY}

\* impl Default for PortalPartsDespawnStrategy
DefaultStrategy == DESPAWN_AND_WARN

\* #[default] of PortalPartDespawnStrategy
DefaultPolicy == "WarnThenDespawnEntity"

\* A strategy with a different policy for every kind of part.
MixedStrategy ==
    MkStrategy("Leave", "WarnThenDespawnWithChildren", "DespawnEntity", "WarnThenDespawnEntity")

\* The strategies the plugin is configured with: the predefined ones, one
\* policy for every kind, and a mixed one.
StrategySet == Predefined \cup {MkStrategy(p, p, p, p) : p \in Policies} \cup {MixedStrategy}

\* PortalsPlugin.despawn_strategy is <<>> (None) or <<strategy>>; the resource
\* is the given strategy, or the Default one.
build_despawn(despawn_strategy) ==
    IF despawn_strategy = <<>> THEN DefaultStrategy ELSE despawn_strategy[1]

HasPanic(s) == \E k \in Kinds : s[k] = "Panic"

\* ------------------------------------------------------------------- world
VARIABLES
    plugin,        \* PortalsPlugin: despawn_strategy, check_portal_parts_back_references
    strategy,      \* the PortalPartsDespawnStrategy resource
    alive,         \* the entities of the world
    comps,         \* entity -> its components
    portalParts,   \* PortalParts entity -> the four entities it names
    gt,            \* entity -> GlobalTransform
    transform,     \* portal camera -> Transform
    frustum,       \* portal camera -> the system that wrote its Frustum last, and from what
    gtChanged,     \* entities whose GlobalTransform is flagged changed
    projChanged,   \* portal cameras whose Projection is flagged changed
    tfChanged,     \* portal cameras whose Transform is flagged changed
    images,        \* Assets<Image>: unit's image handle -> size, <<>> if absent
    materials,     \* Assets<PortalMaterial>: the units whose material exists
    camViewport,   \* main camera's Camera.viewport size, <<>> if None
    targetSize,    \* size found through the main camera's render target, <<>> if not found
    mirror,        \* destination -> PortalDestination.mirror, <<>> if None
    phase,         \* position in the frame
    todo,          \* entities the running system has still to visit
    cmds,          \* the Commands queued and not yet applied
    applied,       \* the despawn commands applied so far
    warns,         \* warnings logged in this frame
    calls,         \* calls of deal_with_part_query_error in this frame
    passLog,       \* what update_portal_cameras did for each unit in this frame
    panic,         \* <<>>, or the panic that ended the program
    events,        \* external events so far
    partOf,        \* entity with a PortalPart -> PortalPart.parts
    projection,    \* camera -> its Projection
    portalMode,    \* portal camera -> PortalCamera.portal_mode
    createPortal,  \* portal -> the CreatePortal it was given
    mathIn,        \* SpecPose: the inputs drawn
    mathOut        \* SpecPose: the results computed

vars == <<plugin, strategy, alive, comps, portalParts, gt, transform, frustum,
          gtChanged, projChanged, tfChanged, images, materials, camViewport,
          targetSize, mirror, phase, todo, cmds, applied, warns, calls, passLog, panic,
          events, partOf, projection, portalMode, createPortal, mathIn, mathOut>>

worldVars == <<plugin, strategy, alive, comps, portalParts, gt, transform, frustum,
               gtChanged, projChanged, tfChanged, images, materials, camViewport,
               targetSize, mirror, phase, todo, cmds, applied, warns, calls, passLog, panic,
               events, partOf, projection, portalMode, createPortal>>

\* What create_portal sets and the update systems only read.
createVars == <<partOf, projection, portalMode, createPortal>>

mathVars == <<mathIn, mathOut>>

Units == 1..MaxUnits

\* Entities: the viewer's camera, and per unit the portal, the destination,
\* the portal camera and the entity holding PortalParts; each part has one child.
Viewer == <<"camera", 0>>

PortalE(u) == <<"portal", u>>

DestinationE(u) == <<"destination", u>>

PortalCameraE(u) == <<"portal_camera", u>>

PartsE(u) == <<"parts", u>>

ChildE(e) ==
    CASE e[1] = "camera" -> <<"camera_child", e[2]>>
      [] e[1] = "portal" -> <<"portal_child", e[2]>>
      [] e[1] = "destination" -> <<"destination_child", e[2]>>
      [] e[1] = "portal_camera" -> <<"portal_camera_child", e[2]>>

PartEntities == {Viewer} \cup UNION {{PortalE(u), DestinationE(u), PortalCameraE(u)} : u \in Units}

PartsEntities == {PartsE(u) : u \in Units}

Entities == PartEntities \cup PartsEntities \cup {ChildE(e) : e \in PartEntities}

\* Children of an entity (the debug elements create_portal attaches).
Children(e) == IF e \in PartEntities THEN {ChildE(e)} ELSE {}

\* PortalPart.parts of a portal, destination or portal camera.
PartOf(e) == partOf[e]

\* PortalCamera.image and the portal's MeshMaterial3d handle: one per unit.
ImageOf(e) == e[2]

MaterialOf(e) == e[2]

ViewerComponents == {"Camera", "Transform", "GlobalTransform", "Projection", "Frustum"}

PortalComponents == {"Transform", "GlobalTransform", "Portal", "PortalPart", "MeshMaterial3d"}

DestinationComponents == {"Transform", "GlobalTransform", "PortalDestination", "PortalPart"}

PortalCameraComponents ==
    {"Camera", "Transform", "GlobalTransform", "Projection", "Frustum", "PortalCamera", "PortalPart"}

InitialComponents(e) ==
    CASE e = Viewer -> ViewerComponents
      [] e[1] = "portal" -> PortalComponents
      [] e[1] = "destination" -> DestinationComponents
      [] e[1] = "portal_camera" -> PortalCameraComponents
      [] e[1] = "parts" -> {"PortalParts"}
      [] OTHER -> {"Transform", "GlobalTransform"}

\* Components an external system may remove from a part.
KeyComponents == {"GlobalTransform"}

\* Render sizes (UVec2).
Sizes == {<<1, 1>>, <<2, 1>>}

\* World poses: unscaled, unrotated, along the x axis.
PoseAt(x) == Affine(MIdentity, V3(x, 0, 0))

WorldPoses == {PoseAt(x) : x \in 0..MaxCoord}

\* A pose with a zero scale on the x axis: it has no inverse.
FlattenedPose == ToGlobal(MkTransform(VZero, MIdentity, V3(0, 1, 1)))

\* The poses an entity may be moved to: a portal may also be flattened.
PosesOf(e) == IF e[1] = "portal" THEN WorldPoses \cup {FlattenedPose} ELSE WorldPoses

PortalCameraEntities == {PortalCameraE(u) : u \in Units}

\* The entities other systems and the user's commands act on: the viewer's
\* camera and the first unit. The other units are only acted on by the crate.
Disturbed == {Viewer, PortalE(1), DestinationE(1), PortalCameraE(1)}

DisturbedParts == {PartsE(1)}

\* ----------------------------------------------------------------- queries
Has(e, cs) == e \in alive /\ cs \subseteq comps[e]

\* update_portal_cameras: portal_cameras
PortalCamerasQuery(e) ==
    Has(e, {"PortalCamera", "Transform", "GlobalTransform", "Projection", "Camera"})

\* update_portal_cameras: main_camera_query
MainCameraQuery(e) == Has(e, {"GlobalTransform", "Camera"}) /\ "PortalCamera" \notin comps[e]

\* update_portal_cameras: portal_query
PortalQuery(e) ==
    Has(e, {"GlobalTransform", "MeshMaterial3d", "Portal"}) /\ "Camera" \notin comps[e]

\* update_portal_cameras: destination_query
DestinationQuery(e) ==
    Has(e, {"GlobalTransform", "PortalDestination"}) /\ "Camera" \notin comps[e]

\* update_portal_camera_frusta: portal_cameras, with its Changed filter
FrustaPortalCamerasQuery(e) ==
    /\ Has(e, {"PortalCamera", "GlobalTransform", "Frustum", "Projection", "Camera"})
    /\ (e \in gtChanged \/ e \in projChanged)

\* update_portal_camera_frusta: destination_query
FrustaDestinationQuery(e) == Has(e, {"GlobalTransform", "PortalDestination"})

\* Query<(Entity, &PortalParts)> and Query<&PortalParts>::contains
PortalPartsQuery(e) == e \in PartsEntities /\ Has(e, {"PortalParts"})

\* The QueryEntityError of a failed get.
QueryError(e) ==
    [kind |-> IF e \in alive THEN "QueryDoesNotMatch" ELSE "EntityDoesNotExist", entity |-> e]

\* All four parts of a unit resolve in update_portal_cameras.
Resolves(pe) ==
    /\ PortalCamerasQuery(portalParts[pe].portal_camera)
    /\ MainCameraQuery(portalParts[pe].main_camera)
    /\ PortalQuery(portalParts[pe].portal)
    /\ DestinationQuery(portalParts[pe].destination)

\* ----------------------------------------------------------------- despawn
\* What a system accumulates while it runs: the commands it queues, the
\* warnings it logs, its calls of deal_with_part_query_error, and its panic.
\* A queued command records the entity type and the policy it was decided by,
\* and the PortalParts entity it was queued for.
Message(text, parts_entity, part, entity) ==
    [text |-> text, parts |-> parts_entity, part |-> part, entity |-> entity]

Warning(entity_type, error_message) ==
    [entity_type |-> entity_type, error_message |-> error_message]

Command(op, entity, entity_type, policy, error_message) ==
    [op |-> op, entity |-> entity, entity_type |-> entity_type, policy |-> policy,
     parts |-> error_message.parts]

\* A missing entity panics whatever the policy, unless it is Leave.
despawn_portal_part_panics_on_missing(out, entity, policy, error_message, entity_type) ==
    IF out.panic # <<>> THEN out
    ELSE IF policy # "Leave" /\ entity \notin alive
    THEN [out EXCEPT !.panic = <<Warning(entity_type, error_message)>>]
    ELSE out

\* Every despawn also queues the despawn of the children.
despawn_portal_part_always_children(out, entity, policy, error_message, entity_type) ==
    IF out.panic # <<>> THEN out
    ELSE IF should_despawn(policy) /\ entity \in alive
    THEN [out EXCEPT
             !.warns = Append(@, Warning(entity_type, error_message)),
             !.cmds = @ \o <<Command("despawn_related_children", entity, entity_type, policy,
                                     error_message),
                             Command("despawn", entity, entity_type, policy, error_message)>>]
    ELSE out

\* The warning is logged before the entity is looked up: a part that is
\* already despawned is warned about and not despawned.
despawn_portal_part_warns_on_missing(out, entity, policy, error_message, entity_type) ==
    IF out.panic # <<>> THEN out
    ELSE IF should_despawn(policy)
    THEN LET warned == IF should_warn(policy)
                       THEN [out EXCEPT !.warns = Append(@, Warning(entity_type, error_message))]
                       ELSE out
         IN  IF entity \in alive
             THEN [warned EXCEPT
                      !.cmds = @ \o (IF should_despawn_children(policy)
                                     THEN <<Command("despawn_related_children", entity,
                                                    entity_type, policy, error_message)>>
                                     ELSE <<>>)
                                 \o <<Command("despawn", entity, entity_type, policy,
                                               error_message)>>]
             ELSE warned
    ELSE IF should_panic(policy)
    THEN [out EXCEPT !.panic = <<Warning(entity_type, error_message)>>]
    ELSE out

despawn_portal_part(out, entity, policy, error_message, entity_type) ==
    IF out.panic # <<>> THEN out
    ELSE IF should_despawn(policy)
    THEN IF entity \in alive  \* commands.get_entity(entity) is Ok
         THEN [out EXCEPT
                  !.warns = IF should_warn(policy)
                            THEN Append(@, Warning(entity_type, error_message)) ELSE @,
                  !.cmds = @ \o (IF should_despawn_children(policy)
                                 THEN <<Command("despawn_related_children", entity,
                                                entity_type, policy, error_message)>>
                                 ELSE <<>>)
                             \o <<Command("despawn", entity, entity_type, policy,
                                           error_message)>>]
         ELSE out
    ELSE IF should_panic(policy)
    THEN [out EXCEPT !.panic = <<Warning(entity_type, error_message)>>]
    ELSE out

despawn_portal_parts_with_message(out, parts, strat, error_message) ==
    LET o1 == despawn_portal_part(out, parts.portal_camera, strat.portal_camera,
                                  error_message, "Portal Camera")
        o2 == despawn_portal_part(o1, parts.destination, strat.destination,
                                  error_message, "Destination")
        o3 == despawn_portal_part(o2, parts.portal, strat.portal, error_message, "Portal")
    IN  despawn_portal_part(o3, parts.main_camera, strat.main_camera,
                            error_message, "Main Camera")

despawn_portal_parts(out, parts, strat) ==
    despawn_portal_parts_with_message(out, parts, strat,
        Message("is a part of portal parts being despawned but should have been despawned before",
                <<"none", 0>>, "", <<"none", 0>>))

deal_with_part_query_error(out, parts, parts_entity, strat, query_error, name_of_part) ==
    despawn_portal_parts_with_message(
        [out EXCEPT !.calls = Append(@, [parts |-> parts_entity, part |-> name_of_part])],
        parts, strat,
        Message(IF query_error.kind = "QueryDoesNotMatch" THEN "is missing key components"
                ELSE "has despawned",
                parts_entity, name_of_part, query_error.entity))

\* A despawn that leaves the children of the entity alive.
DespawnedEntityOnly(e) == {e}

\* EntityCommands::despawn in the Bevy version this code is written against
\* (the one with despawn_related and ChildOf): the entity is despawned and,
\* Children being a linked relationship, so are its children.
Despawned(e) == {e} \cup Children(e)

\* Commands applied in the order queued. despawn_related::<Children> removes
\* the children of an entity that still exists. A command on an entity
\* already despawned changes nothing.
RECURSIVE ApplyCommands(_, _)
ApplyCommands(queue, world) ==
    IF queue = <<>> THEN world
    ELSE LET c == Head(queue)
             exists == c.entity \in world.alive
             next ==
                 IF ~exists THEN world
                 ELSE IF c.op = "despawn"
                 THEN [alive |-> world.alive \ Despawned(c.entity),
                       applied |-> world.applied \cup {c}]
                 ELSE [alive |-> world.alive \ Children(c.entity),
                       applied |-> world.applied \cup {c}]
         IN  ApplyCommands(Tail(queue), next)

\* ---------------------------------------------------- update_portal_cameras
\* The state a run of update_portal_cameras reads and writes.
PassState ==
    [cmds |-> cmds, warns |-> warns, calls |-> calls, panic |-> panic,
     images |-> images, gt |-> gt, transform |-> transform, frustum |-> frustum,
     gtChanged |-> gtChanged, tfChanged |-> tfChanged, projChanged |-> projChanged,
     passLog |-> passLog]

NoLog == [outcome |-> "none", resize_checked |-> FALSE, resized |-> FALSE,
          image_written |-> FALSE, pose_written |-> FALSE, proj_flagged |-> FALSE]

\* get_viewport_size: the camera's viewport if it has one, else the size found
\* through its render target (window, image or texture view), if any.
get_viewport_size == IF camViewport # <<>> THEN camViewport ELSE targetSize

\* A resize is reported but the image is never written.
resize_image_if_needed_no_write(w, pe, portal_camera, portal_material) ==
    LET size == w.images[ImageOf(portal_camera)]
        main_camera_viewport_size == get_viewport_size
        checked == [w EXCEPT !.passLog[pe].resize_checked = TRUE]
    IN  IF size = <<>> \/ main_camera_viewport_size = <<>>
        THEN [w |-> checked, resized |-> FALSE]
        ELSE [w |-> checked,
              resized |-> size[1] # main_camera_viewport_size[1]
                          \/ size[2] # main_camera_viewport_size[2]]

\* The image is written whenever the viewport size is found, equal or not.
resize_image_if_needed_always_writes(w, pe, portal_camera, portal_material) ==
    LET size == w.images[ImageOf(portal_camera)]
        main_camera_viewport_size == get_viewport_size
        checked == [w EXCEPT !.passLog[pe].resize_checked = TRUE]
    IN  IF size = <<>> \/ main_camera_viewport_size = <<>>
        THEN [w |-> checked, resized |-> FALSE]
        ELSE [w |-> [checked EXCEPT
                        !.images[ImageOf(portal_camera)] = main_camera_viewport_size,
                        !.passLog[pe].image_written = TRUE],
              resized |-> TRUE]

\* resize_image_if_needed: the pass state after it, and whether it reports a resize.
resize_image_if_needed(w, pe, portal_camera, portal_material) ==
    LET size == w.images[ImageOf(portal_camera)]
        main_camera_viewport_size == get_viewport_size
        checked == [w EXCEPT !.passLog[pe].resize_checked = TRUE]
    IN  IF size = <<>>  \* images.get(..).unwrap()
        THEN [w |-> [w EXCEPT !.passLog[pe].outcome = "panicked",
                              !.panic = <<Warning("unwrap",
                          Message("called Option::unwrap() on a None value", pe,
                                  "Portal Camera", portal_camera))>>],
              resized |-> FALSE]
        ELSE IF main_camera_viewport_size = <<>>
        THEN [w |-> [checked EXCEPT !.warns = Append(@, Warning("resize",
                          Message("Viewport size not found, skipping portal resize", pe,
                                  "Main Camera", portal_camera)))],
              resized |-> FALSE]
        ELSE LET resize == size[1] # main_camera_viewport_size[1]
                           \/ size[2] # main_camera_viewport_size[2]
             IN  IF ~resize THEN [w |-> checked, resized |-> FALSE]
                 ELSE IF portal_material \in materials
                 THEN [w |-> [checked EXCEPT
                                 !.images[ImageOf(portal_camera)] = main_camera_viewport_size,
                                 !.passLog[pe].image_written = TRUE],
                       resized |-> TRUE]
                 ELSE [w |-> [checked EXCEPT !.warns = Append(@, Warning("resize",
                                  Message("No portal image or material.", pe,
                                          "Portal", portal_camera)))],
                       resized |-> TRUE]

\* A failure is handled but does not end the iteration: the portal camera is
\* still flagged as resized and moved.
update_portal_cameras_unit_no_continue(w, pe) ==
    LET parts == portalParts[pe]
        failed == deal_with_part_query_error(w, parts, pe, strategy,
                      QueryError(parts.portal_camera), "Portal Camera")
    IN  IF Resolves(pe)
        THEN [w EXCEPT !.passLog[pe].outcome = "processed",
                       !.passLog[pe].resize_checked = TRUE]
        ELSE [failed EXCEPT !.passLog[pe].outcome = "failed",
                            !.projChanged = @ \cup {parts.portal_camera},
                            !.tfChanged = @ \cup {parts.portal_camera},
                            !.gtChanged = @ \cup {parts.portal_camera}]

\* The recomputed pose is written to the Transform only: the GlobalTransform
\* follows at the next transform propagation.
update_portal_cameras_unit_transform_only(w, pe) ==
    LET parts == portalParts[pe]
        fail(entity, name_of_part) ==
            [deal_with_part_query_error(w, parts, pe, strategy, QueryError(entity), name_of_part)
                EXCEPT !.passLog[pe].outcome = "failed"]
    IN  IF ~PortalCamerasQuery(parts.portal_camera)
        THEN fail(parts.portal_camera, "Portal Camera")
        ELSE IF ~MainCameraQuery(parts.main_camera)
        THEN fail(parts.main_camera, "Main Camera")
        ELSE IF ~PortalQuery(parts.portal)
        THEN fail(parts.portal, "Portal")
        ELSE IF ~DestinationQuery(parts.destination)
        THEN fail(parts.destination, "Destination")
        ELSE
        LET r  == resize_image_if_needed(w, pe, parts.portal_camera, MaterialOf(parts.portal))
            w1 == IF r.resized
                  THEN [r.w EXCEPT !.projChanged = @ \cup {parts.portal_camera},
                                   !.passLog[pe].proj_flagged = TRUE,
                                   !.passLog[pe].resized = TRUE]
                  ELSE r.w
            should_update_transform ==
                \/ parts.portal \in w.gtChanged
                \/ parts.destination \in w.gtChanged
                \/ parts.main_camera \in w.gtChanged
            new_portal_camera_global_transform ==
                get_portal_camera_transform(w.gt[parts.main_camera], w.gt[parts.portal],
                                            w.gt[parts.destination],
                                            mirror[parts.destination])
        IN  IF r.w.panic # <<>> THEN r.w
            ELSE IF should_update_transform
            THEN [w1 EXCEPT
                     !.transform[parts.portal_camera] =
                         ComputeTransform(new_portal_camera_global_transform),
                     !.tfChanged = @ \cup {parts.portal_camera},
                     !.passLog[pe].outcome = "processed",
                     !.passLog[pe].pose_written = TRUE]
            ELSE [w1 EXCEPT !.passLog[pe].outcome = "processed"]

\* One iteration of the loop of update_portal_cameras, for PortalParts entity pe.
update_portal_cameras_unit(w, pe) ==
    LET parts == portalParts[pe]
        fail(entity, name_of_part) ==
            [deal_with_part_query_error(w, parts, pe, strategy, QueryError(entity), name_of_part)
                EXCEPT !.passLog[pe].outcome = "failed"]
    IN  IF ~PortalCamerasQuery(parts.portal_camera)
        THEN fail(parts.portal_camera, "Portal Camera")
        ELSE IF ~MainCameraQuery(parts.main_camera)
        THEN fail(parts.main_camera, "Main Camera")
        ELSE IF ~PortalQuery(parts.portal)
        THEN fail(parts.portal, "Portal")
        ELSE IF ~DestinationQuery(parts.destination)
        THEN fail(parts.destination, "Destination")
        ELSE
        LET r  == resize_image_if_needed(w, pe, parts.portal_camera, MaterialOf(parts.portal))
            w1 == IF r.resized
                  THEN [r.w EXCEPT !.projChanged = @ \cup {parts.portal_camera},
                                   !.passLog[pe].proj_flagged = TRUE,
                                   !.passLog[pe].resized = TRUE]
                  ELSE r.w
            should_update_transform ==
                \/ parts.portal \in w.gtChanged
                \/ parts.destination \in w.gtChanged
                \/ parts.main_camera \in w.gtChanged
            new_portal_camera_global_transform ==
                get_portal_camera_transform(w.gt[parts.main_camera], w.gt[parts.portal],
                                            w.gt[parts.destination],
                                            mirror[parts.destination])
        IN  IF r.w.panic # <<>> THEN r.w
            ELSE IF should_update_transform
            THEN [w1 EXCEPT
                     !.transform[parts.portal_camera] =
                         ComputeTransform(new_portal_camera_global_transform),
                     !.gt[parts.portal_camera] = new_portal_camera_global_transform,
                     !.tfChanged = @ \cup {parts.portal_camera},
                     !.gtChanged = @ \cup {parts.portal_camera},
                     !.passLog[pe].outcome = "processed",
                     !.passLog[pe].pose_written = TRUE]
            ELSE [w1 EXCEPT !.passLog[pe].outcome = "processed"]

\* The Frustum is refreshed for the cameras that moved only: a changed
\* Projection is not looked at.
update_portal_camera_frusta_unit_moved_only(w, pe) ==
    LET parts == portalParts[pe]
    IN  IF /\ FrustaPortalCamerasQuery(parts.portal_camera)
           /\ parts.portal_camera \in gtChanged
        THEN IF ~FrustaDestinationQuery(parts.destination)
             THEN deal_with_part_query_error(w, parts, pe, strategy,
                      QueryError(parts.destination), "Destination")
             ELSE [w EXCEPT !.frustum[parts.portal_camera] =
                     ComputedFrustum("get_frustum",
                         [portal_mode |-> portalMode[parts.portal_camera]],
                         w.gt[parts.portal_camera], w.gt[parts.destination],
                         projection[parts.portal_camera])]
        ELSE w

\* One iteration of the loop of update_portal_camera_frusta.
update_portal_camera_frusta_unit(w, pe) ==
    LET parts == portalParts[pe]
    IN  IF FrustaPortalCamerasQuery(parts.portal_camera)
        THEN IF ~FrustaDestinationQuery(parts.destination)
             THEN deal_with_part_query_error(w, parts, pe, strategy,
                      QueryError(parts.destination), "Destination")
             ELSE [w EXCEPT !.frustum[parts.portal_camera] =
                     ComputedFrustum("get_frustum",
                         [portal_mode |-> portalMode[parts.portal_camera]],
                         w.gt[parts.portal_camera], w.gt[parts.destination],
                         projection[parts.portal_camera])]
        ELSE w

\* Every orphan is handled by the policy of the main camera.
check_portal_parts_back_references_part_main_camera_policy(w, part_entity) ==
    despawn_portal_part(w, part_entity, strategy.main_camera,
        Message("has a reference to a PortalParts entity which has been despawned.",
                PartOf(part_entity), "", part_entity),
        "Portal Part")

\* One iteration of the loop of check_portal_parts_back_references, for an
\* entity with a PortalPart whose PortalParts entity is not found.
check_portal_parts_back_references_part(w, part_entity) ==
    LET message == Message("has a reference to a PortalParts entity which has been despawned.",
                           PartOf(part_entity), "", part_entity)
    IN  IF "Portal" \in comps[part_entity]
        THEN despawn_portal_part(w, part_entity, strategy.portal, message, "Portal Part")
        ELSE IF "PortalDestination" \in comps[part_entity]
        THEN despawn_portal_part(w, part_entity, strategy.destination, message, "Portal Part")
        ELSE IF "PortalCamera" \in comps[part_entity]
        THEN despawn_portal_part(w, part_entity, strategy.portal_camera, message, "Portal Part")
        ELSE [w EXCEPT !.warns = Append(@, Warning("Portal Part",
                 Message("isn't a portal, a destination or a portal camera",
                         PartOf(part_entity), "", part_entity)))]

\* -------------------------------------------------------------------- Init
\* The PortalParts of unit u. create_portal takes the main camera given, or
\* the first entity with a Camera that its query finds: the viewer's camera,
\* or the portal camera of a portal created earlier.
PartsOfUnit(u, main_camera) ==
    [main_camera |-> main_camera, portal |-> PortalE(u),
     destination |-> DestinationE(u), portal_camera |-> PortalCameraE(u)]

PartsConfig(first_camera) ==
    [pe \in PartsEntities |->
        PartsOfUnit(pe[2], IF pe[2] = MaxUnits /\ pe[2] > 1 THEN first_camera ELSE Viewer)]

\* PortalsPlugin: any strategy (or none) with the back-reference check, and
\* PortalsPlugin::MINIMAL.
PluginConfigs ==
    [despawn_strategy : {<<>>} \cup {<<s>> : s \in StrategySet},
     check_portal_parts_back_references : {TRUE}]
    \cup {[despawn_strategy |-> <<PANIC>>, check_portal_parts_back_references |-> FALSE]}

IdentityTransform == MkTransform(VZero, MIdentity, V3(1, 1, 1))

\* The world after the plugin is built and the units are created.
WorldInitWith(the_plugin, parts_config) ==
    /\ plugin = the_plugin
    /\ strategy = build_despawn(plugin.despawn_strategy)
    /\ alive = Entities
    /\ comps = [e \in Entities |-> InitialComponents(e)]
    /\ portalParts = parts_config
    /\ gt = [e \in PartEntities |->
                CASE e[1] = "camera" -> PoseAt(1)
                  [] e[1] = "destination" -> PoseAt(1)
                  [] e[1] = "portal" -> PoseAt(0)
                  [] OTHER -> AffineIdentity]
    /\ transform = [e \in PortalCameraEntities |-> IdentityTransform]
    /\ frustum = [e \in PortalCameraEntities |-> DefaultFrustum]
    /\ gtChanged = PartEntities
    /\ projChanged = PortalCameraEntities
    /\ tfChanged = PortalCameraEntities
    /\ images = [u \in Units |-> <<1, 1>>]
    /\ materials = Units
    /\ camViewport = <<>>
    /\ targetSize = <<1, 1>>
    /\ mirror = [e \in {DestinationE(u) : u \in Units} |->
                    IF e[2] = 1 THEN <<>> ELSE <<VZero, V3(1, 0, 0)>>]
    /\ phase = "idle"
    /\ todo = {}
    /\ cmds = <<>>
    /\ applied = {}
    /\ warns = <<>>
    /\ calls = <<>>
    /\ passLog = [pe \in PartsEntities |-> NoLog]
    /\ panic = <<>>
    /\ events = 0
    /\ partOf = [e \in PartEntities \ {Viewer} |-> PartsE(e[2])]
    /\ projection = [e \in {Viewer} \cup PortalCameraEntities |-> PerspectiveProjection]
    /\ portalMode = [e \in PortalCameraEntities |-> DefaultPortalMode]
    /\ createPortal = <<>>

\* PortalsPlugin::default()
DefaultPlugin == [despawn_strategy |-> <<>>, check_portal_parts_back_references |-> TRUE]

\* Every plugin configuration with the viewer's camera as every unit's main
\* camera, and the default plugin with the first portal camera as the last
\* unit's main camera.
WorldInit ==
    \/ \E the_plugin \in PluginConfigs : WorldInitWith(the_plugin, PartsConfig(Viewer))
    \/ WorldInitWith(DefaultPlugin, PartsConfig(PortalCameraE(1)))

Init == WorldInit /\ mathIn = <<>> /\ mathOut = <<>>

\* ---------------------------------------------------------- external events
CanEvent == phase = "idle" /\ events < MaxEvents

\* Another system despawns a part or a PortalParts entity.
ExtDespawn ==
    /\ CanEvent
    /\ \E e \in alive \cap (Disturbed \cup DisturbedParts) :
        alive' = alive \ Despawned(e)
    /\ events' = events + 1
    /\ UNCHANGED <<mathVars, createVars, plugin, strategy, comps, portalParts, gt, transform, frustum, gtChanged,
                   projChanged, tfChanged, images, materials, camViewport, targetSize,
                   mirror, phase, todo, cmds, applied, warns, calls, passLog, panic>>

\* Another system removes a key component of a part.
ExtRemoveComponent ==
    /\ CanEvent
    /\ \E e \in alive \cap Disturbed : \E c \in comps[e] \cap KeyComponents :
        comps' = [comps EXCEPT ![e] = @ \ {c}]
    /\ events' = events + 1
    /\ UNCHANGED <<mathVars, createVars, plugin, strategy, alive, portalParts, gt, transform, frustum, gtChanged,
                   projChanged, tfChanged, images, materials, camViewport, targetSize,
                   mirror, phase, todo, cmds, applied, warns, calls, passLog, panic>>

\* The viewer's camera, a portal or a destination moves.
ExtMove ==
    /\ CanEvent
    /\ \E e \in alive \cap (Disturbed \ PortalCameraEntities) :
        \E p \in PosesOf(e) \ {gt[e]} :
            /\ "GlobalTransform" \in comps[e]
            /\ gt' = [gt EXCEPT ![e] = p]
            /\ gtChanged' = gtChanged \cup {e}
    /\ events' = events + 1
    /\ UNCHANGED <<mathVars, createVars, plugin, strategy, alive, comps, portalParts, transform, frustum,
                   projChanged, tfChanged, images, materials, camViewport, targetSize,
                   mirror, phase, todo, cmds, applied, warns, calls, passLog, panic>>

\* The main camera's viewport or render target changes size, or is lost.
ExtResize ==
    /\ CanEvent
    /\ \/ /\ camViewport' \in (Sizes \cup {<<>>}) \ {camViewport}
          /\ UNCHANGED targetSize
       \/ /\ targetSize' \in (Sizes \cup {<<>>}) \ {targetSize}
          /\ UNCHANGED camViewport
    /\ events' = events + 1
    /\ UNCHANGED <<mathVars, createVars, plugin, strategy, alive, comps, portalParts, gt, transform, frustum,
                   gtChanged, projChanged, tfChanged, images, materials,
                   mirror, phase, todo, cmds, applied, warns, calls, passLog, panic>>

\* A portal image or a portal material is removed from its asset table.
ExtRemoveAsset ==
    /\ CanEvent
    /\ \/ /\ \E u \in {1} : images[u] # <<>> /\ images' = [images EXCEPT ![u] = <<>>]
          /\ UNCHANGED materials
       \/ /\ \E u \in materials \cap {1} : materials' = materials \ {u}
          /\ UNCHANGED images
    /\ events' = events + 1
    /\ UNCHANGED <<mathVars, createVars, plugin, strategy, alive, comps, portalParts, gt, transform, frustum,
                   gtChanged, projChanged, tfChanged, camViewport, targetSize,
                   mirror, phase, todo, cmds, applied, warns, calls, passLog, panic>>

\* The result of commands queued and applied at once (SystemState::apply).
Immediate(out) ==
    LET world == ApplyCommands(out.cmds, [alive |-> alive, applied |-> applied])
    IN  /\ warns' = out.warns
        /\ panic' = out.panic
        /\ IF out.panic # <<>>
           THEN phase' = "crashed" /\ UNCHANGED <<alive, applied>>
           ELSE phase' = phase /\ alive' = world.alive /\ applied' = world.applied

NoOut == [cmds |-> <<>>, warns |-> warns, calls |-> calls, panic |-> <<>>]

\* DespawnPortalPartsCommand: despawn_portal_parts with a strategy of the caller's.
DespawnPortalPartsCommand ==
    /\ CanEvent
    /\ \E pe \in DisturbedParts : \E s \in {strategy, DefaultStrategy} :
        /\ PortalPartsQuery(pe)
        /\ Immediate(despawn_portal_parts(NoOut, portalParts[pe], s))
    /\ events' = events + 1
    /\ UNCHANGED <<mathVars, createVars, plugin, strategy, comps, portalParts, gt, transform, frustum, gtChanged,
                   projChanged, tfChanged, images, materials, camViewport, targetSize,
                   mirror, todo, cmds, calls, passLog>>

\* The command looks the entity up as a part only: applied to a PortalParts
\* entity it finds nothing.
despawn_portal_parts_entity_command_part_only(out, entity) ==
    IF "PortalPart" \in comps[entity] /\ PortalPartsQuery(PartOf(entity))
    THEN despawn_portal_parts(out, portalParts[PartOf(entity)], DefaultStrategy)
    ELSE [out EXCEPT !.warns = Append(@, Warning("command",
             Message("DespawnPortalPartsEntityCommand called on entity which is not a portal part nor a portal parts entity",
                     <<"none", 0>>, "", entity)))]

\* DespawnPortalPartsEntityCommand::default().apply: the PortalParts the
\* entity's PortalPart names, or the entity's own PortalParts when it has no
\* PortalPart, is torn down; when none is found a warning is logged.
despawn_portal_parts_entity_command(out, entity) ==
    LET target == IF "PortalPart" \in comps[entity] THEN PartOf(entity) ELSE entity
    IN  IF PortalPartsQuery(target)
        THEN despawn_portal_parts(out, portalParts[target], DefaultStrategy)
        ELSE [out EXCEPT !.warns = Append(@, Warning("command",
                 Message("DespawnPortalPartsEntityCommand called on entity which is not a portal part nor a portal parts entity",
                         <<"none", 0>>, "", entity)))]

\* DespawnPortalPartsEntityCommand::default() applied to an entity.
DespawnPortalPartsEntityCommand ==
    /\ CanEvent
    /\ \E entity \in alive \cap (Disturbed \cup DisturbedParts) :
        Immediate(despawn_portal_parts_entity_command(NoOut, entity))
    /\ events' = events + 1
    /\ UNCHANGED <<mathVars, createVars, plugin, strategy, comps, portalParts, gt, transform, frustum, gtChanged,
                   projChanged, tfChanged, images, materials, camViewport, targetSize,
                   mirror, todo, cmds, calls, passLog>>

\* ---------------------------------------------------------------- the frame
\* A frame runs, in this order: Update (check_portal_parts_back_references,
\* when the plugin enables it), then PostUpdate: transform propagation,
\* update_portal_cameras, the renderer's update_frusta, and
\* update_portal_camera_frusta. The commands a system queued are applied
\* when it returns, before the next of these systems runs.

\* PortalPart entities whose PortalParts entity is not found: the only
\* iterations of check_portal_parts_back_references that do anything.
Orphans == {e \in alive : "PortalPart" \in comps[e] /\ ~PortalPartsQuery(PartOf(e))}

\* The PortalParts entities a system iterates over.
UnitsFound == {pe \in PartsEntities : PortalPartsQuery(pe)}

BeginFrame ==
    /\ phase = "idle"
    /\ warns' = <<>>
    /\ calls' = <<>>
    /\ passLog' = [pe \in PartsEntities |-> NoLog]
    /\ IF plugin.check_portal_parts_back_references
       THEN phase' = "check" /\ todo' = Orphans
       ELSE phase' = "propagate" /\ todo' = {}
    /\ UNCHANGED <<mathVars, createVars, plugin, strategy, alive, comps, portalParts, gt, transform, frustum,
                   gtChanged, projChanged, tfChanged, images, materials, camViewport,
                   targetSize, mirror, cmds, applied, panic, events>>

\* What a system's iteration leaves in the variables it may write.
Written(w) ==
    /\ cmds' = w.cmds
    /\ warns' = w.warns
    /\ calls' = w.calls
    /\ panic' = w.panic
    /\ images' = w.images
    /\ gt' = w.gt
    /\ transform' = w.transform
    /\ frustum' = w.frustum
    /\ gtChanged' = w.gtChanged
    /\ tfChanged' = w.tfChanged
    /\ projChanged' = w.projChanged
    /\ passLog' = w.passLog
    /\ phase' = IF w.panic # <<>> THEN "crashed" ELSE phase

CheckPart ==
    /\ phase = "check"
    /\ \E e \in todo :
        /\ Written(check_portal_parts_back_references_part(PassState, e))
        /\ todo' = todo \ {e}
    /\ UNCHANGED <<mathVars, createVars, plugin, strategy, alive, comps, portalParts, materials, camViewport,
                   targetSize, mirror, applied, events>>

\* The commands a system queued, applied when it has returned.
Flushed ==
    LET world == ApplyCommands(cmds, [alive |-> alive, applied |-> applied])
    IN  alive' = world.alive /\ applied' = world.applied /\ cmds' = <<>>

\* check_portal_parts_back_references returns.
EndCheck ==
    /\ phase = "check"
    /\ todo = {}
    /\ Flushed
    /\ phase' = "propagate"
    /\ UNCHANGED <<mathVars, createVars, plugin, strategy, comps, portalParts, gt, transform, frustum,
                   gtChanged, projChanged, tfChanged, images, materials, camViewport,
                   targetSize, mirror, todo, warns, calls, passLog, panic, events>>

\* Transform propagation: the GlobalTransform of a portal camera whose
\* Transform changed is rewritten from it.
Propagate ==
    /\ phase = "propagate"
    /\ LET moved == {e \in tfChanged : Has(e, {"Transform", "GlobalTransform"})}
       IN  /\ gt' = [e \in DOMAIN gt |-> IF e \in moved THEN ToGlobal(transform[e]) ELSE gt[e]]
           /\ gtChanged' = gtChanged \cup moved
    /\ tfChanged' = {}
    /\ phase' = "cameras"
    /\ todo' = UnitsFound
    /\ UNCHANGED <<mathVars, createVars, plugin, strategy, alive, comps, portalParts, transform, frustum,
                   projChanged, images, materials, camViewport, targetSize, mirror, cmds,
                   applied, warns, calls, passLog, panic, events>>

UpdatePortalCamerasUnit ==
    /\ phase = "cameras"
    /\ \E pe \in todo :
        /\ Written(update_portal_cameras_unit(PassState, pe))
        /\ todo' = todo \ {pe}
    /\ UNCHANGED <<mathVars, createVars, plugin, strategy, alive, comps, portalParts, materials, camViewport,
                   targetSize, mirror, applied, events>>

\* update_portal_cameras returns: the change flags it read are consumed.
EndUpdatePortalCameras ==
    /\ phase = "cameras"
    /\ todo = {}
    /\ gtChanged' = gtChanged \cap PortalCameraEntities
    /\ Flushed
    /\ phase' = "update_frusta"
    /\ UNCHANGED <<mathVars, createVars, plugin, strategy, comps, portalParts, gt, transform, frustum,
                   projChanged, tfChanged, images, materials, camViewport, targetSize,
                   mirror, todo, warns, calls, passLog, panic, events>>

\* The renderer's update_frusta: the Frustum of a camera whose GlobalTransform
\* or Projection changed is derived from its projection.
UpdateFrusta ==
    /\ phase = "update_frusta"
    /\ frustum' = [e \in DOMAIN frustum |->
                      IF /\ Has(e, {"GlobalTransform", "Projection", "Frustum"})
                         /\ (e \in gtChanged \/ e \in projChanged)
                      THEN ComputedFrustum("update_frusta", [portal_mode |-> NoFrustum],
                               gt[e], gt[e], projection[e])
                      ELSE frustum[e]]
    /\ phase' = "frusta"
    /\ todo' = UnitsFound
    /\ UNCHANGED <<mathVars, createVars, plugin, strategy, alive, comps, portalParts, gt, transform, gtChanged,
                   projChanged, tfChanged, images, materials, camViewport, targetSize,
                   mirror, cmds, applied, warns, calls, passLog, panic, events>>

UpdatePortalCameraFrustaUnit ==
    /\ phase = "frusta"
    /\ \E pe \in todo :
        /\ Written(update_portal_camera_frusta_unit(PassState, pe))
        /\ todo' = todo \ {pe}
    /\ UNCHANGED <<mathVars, createVars, plugin, strategy, alive, comps, portalParts, materials, camViewport,
                   targetSize, mirror, applied, events>>

\* update_portal_camera_frusta returns: the change flags it read are
\* consumed, and the frame ends.
EndUpdatePortalCameraFrusta ==
    /\ phase = "frusta"
    /\ todo = {}
    /\ gtChanged' = gtChanged \ PortalCameraEntities
    /\ projChanged' = {}
    /\ Flushed
    /\ phase' = "idle"
    /\ warns' = <<>>
    /\ calls' = <<>>
    /\ passLog' = [pe \in PartsEntities |-> NoLog]
    /\ UNCHANGED <<mathVars, createVars, plugin, strategy, comps, portalParts, gt, transform, frustum,
                   tfChanged, images, materials, camViewport, targetSize, mirror, todo,
                   panic, events>>

Next ==
    \/ ExtDespawn
    \/ ExtRemoveComponent
    \/ ExtMove
    \/ ExtResize
    \/ ExtRemoveAsset
    \/ DespawnPortalPartsCommand
    \/ DespawnPortalPartsEntityCommand
    \/ BeginFrame
    \/ CheckPart
    \/ EndCheck
    \/ Propagate
    \/ UpdatePortalCamerasUnit
    \/ EndUpdatePortalCameras
    \/ UpdateFrusta
    \/ UpdatePortalCameraFrustaUnit
    \/ EndUpdatePortalCameraFrusta

Spec == Init /\ [][Next]_vars

\* --------------------------------------------------------------- SpecCreate
\* The creation of portals, followed by the frames of Spec: the world starts
\* with the viewer's camera and an entity the user made to be a destination;
\* portals are spawned with a CreatePortal one after the other.
UserDestination == <<"destination", 0>>

CreateEntities == Entities \cup {UserDestination}

\* PortalDestinationSource::Use and ::Create (no parent); mirror is <<>> or
\* <<origin, normal>>, the part of MirrorConfig the destination keeps.
Use(entity) == [source |-> "Use", entity |-> entity]

Create(pose, mirror_config) == [source |-> "Create", transform |-> pose, mirror |-> mirror_config]

\* CreatePortal: main_camera is <<>> (None) or <<entity>>; no debug elements.
\* The portals are created with no main camera given.
CreatePortals ==
    [destination : {Use(UserDestination), Create(PoseAt(1), <<>>)},
     portal_mode : {DefaultPortalMode},
     main_camera : {<<>>}]

\* What a portal is spawned with: CreatePortal and the components it requires.
SpawnedPortalComponents == {"Transform", "GlobalTransform", "Mesh3d", "CreatePortal"}

\* The world create_portal reads and, through its commands, writes.
CreateState ==
    [alive |-> alive, comps |-> comps, portalParts |-> portalParts, gt |-> gt,
     transform |-> transform, frustum |-> frustum, gtChanged |-> gtChanged,
     projChanged |-> projChanged, tfChanged |-> tfChanged, images |-> images,
     materials |-> materials, mirror |-> mirror, partOf |-> partOf,
     projection |-> projection, portalMode |-> portalMode, warns |-> warns,
     panic |-> panic]

\* main_camera_query of CreatePortalParams: any entity with a Camera (and the
\* RenderTarget a Camera requires); no filter on PortalCamera.
CreateMainCameraQuery(w, e) == e \in w.alive /\ "Camera" \in w.comps[e]

\* The outcomes of main_camera_query.iter().next(): <<>> when no entity
\* matches, else any matching entity, the order of iteration being the order
\* of the tables the entities are stored in.
FirstCamerasFound(w) ==
    IF \E e \in CreateEntities : CreateMainCameraQuery(w, e)
    THEN {<<e>> : e \in {c \in CreateEntities : CreateMainCameraQuery(w, c)}}
    ELSE {<<>>}

\* get_viewport_size of a camera at creation: the viewer's, or for a portal
\* camera (no viewport, an Image as render target) the size of that image.
ViewportSizeOf(w, camera) ==
    IF camera = Viewer THEN get_viewport_size ELSE w.images[ImageOf(camera)]

\* Projection::default()
DefaultProjection == PerspectiveProjection

\* The portal camera is given Projection::default() whatever the main camera's.
portal_camera_projection_default(w, main_camera_entity) == DefaultProjection

\* main_camera_projection.cloned().unwrap_or_else(Projection::default)
portal_camera_projection(w, main_camera_entity) ==
    IF "Projection" \in w.comps[main_camera_entity]
    THEN w.projection[main_camera_entity] ELSE DefaultProjection

\* create_portal with its commands applied: first_camera is the outcome of
\* main_camera_query.iter().next(). The entities it spawns and the assets it
\* adds for the portal numbered u carry the number u.
create_portal(w, portal_entity, create_portal_given, first_camera) ==
    LET u == portal_entity[2]
        found == IF create_portal_given.main_camera # <<>>
                 THEN IF CreateMainCameraQuery(w, create_portal_given.main_camera[1])
                      THEN create_portal_given.main_camera ELSE <<>>
                 ELSE first_camera
    IN  IF found = <<>>  \* main_camera_query.get(..).unwrap(), .iter().next().unwrap()
        THEN [w EXCEPT !.panic = <<Warning("unwrap",
                 Message("called Option::unwrap() on a None value", PartsE(u),
                         "Main Camera", portal_entity))>>]
        ELSE
        LET main_camera_entity == found[1]
            viewport == ViewportSizeOf(w, main_camera_entity)
            main_camera_viewport_size == IF viewport = <<>> THEN <<100, 100>> ELSE viewport
            use == create_portal_given.destination.source = "Use"
            destination_entity == IF use THEN create_portal_given.destination.entity
                                  ELSE DestinationE(u)
            portal_camera_entity == PortalCameraE(u)
            parts == PartsE(u)
        IN  [w EXCEPT
                !.warns = IF viewport = <<>>
                          THEN Append(@, Warning("create",
                                   Message("Viewport size not found, creating portal with default sized image",
                                           parts, "Main Camera", main_camera_entity)))
                          ELSE @,
                !.images[ImageOf(portal_camera_entity)] = main_camera_viewport_size,
                !.materials = @ \cup {MaterialOf(portal_entity)},
                !.alive = @ \cup {destination_entity, portal_camera_entity, parts},
                !.comps = [e \in DOMAIN @ |->
                    CASE e = portal_entity ->
                             (@[e] \ {"CreatePortal"})
                             \cup {"Portal", "PortalPart", "MeshMaterial3d"}
                      [] e = destination_entity ->
                             (IF use THEN @[e] ELSE {"Transform", "GlobalTransform"})
                             \cup {"PortalDestination", "PortalPart"}
                      [] e = portal_camera_entity -> PortalCameraComponents
                      [] e = parts -> {"PortalParts"}
                      [] OTHER -> @[e]],
                !.portalParts = (parts :> [main_camera |-> main_camera_entity,
                                           portal |-> portal_entity,
                                           destination |-> destination_entity,
                                           portal_camera |-> portal_camera_entity]) @@ @,
                !.partOf = (portal_entity :> parts) @@ (portal_camera_entity :> parts)
                           @@ (destination_entity :> parts) @@ @,
                !.mirror = (destination_entity :>
                               IF use THEN <<>> ELSE create_portal_given.destination.mirror) @@ @,
                !.gt = (portal_camera_entity :> AffineIdentity)
                       @@ (IF use THEN @
                           ELSE (destination_entity :> create_portal_given.destination.transform)
                                @@ @),
                !.transform = (portal_camera_entity :> IdentityTransform) @@ @,
                !.frustum = (portal_camera_entity :> DefaultFrustum) @@ @,
                !.projection = (portal_camera_entity :>
                                   portal_camera_projection(w, main_camera_entity)) @@ @,
                !.portalMode = (portal_camera_entity :> create_portal_given.portal_mode) @@ @,
                !.gtChanged = @ \cup ({portal_camera_entity}
                                      \cup (IF use THEN {} ELSE {destination_entity})),
                !.tfChanged = @ \cup {portal_camera_entity},
                !.projChanged = @ \cup {portal_camera_entity}]

\* create_portal_on_add, the observer of the addition of CreatePortal.
create_portal_on_add(w, portal_entity, create_portal_given, first_camera) ==
    IF /\ portal_entity \in w.alive
       /\ {"CreatePortal", "Transform", "Mesh3d"} \subseteq w.comps[portal_entity]
    THEN create_portal(w, portal_entity, create_portal_given, first_camera)
    ELSE [w EXCEPT !.warns = Append(@, Warning("create",
             Message("Entity with CreatePortal lacks the other required components",
                     <<"none", 0>>, "", portal_entity)))]

\* The portals not spawned yet; they are spawned in the order of their numbers.
NextPortal == {PortalE(u) : u \in {v \in Units : \A x \in 1..(v - 1) : PortalE(x) \in DOMAIN createPortal}
                                  \ {v \in Units : PortalE(v) \in DOMAIN createPortal}}

\* The world before anything is created.
CreateInit ==
    /\ plugin = DefaultPlugin
    /\ strategy = build_despawn(plugin.despawn_strategy)
    /\ alive = {Viewer, UserDestination}
    /\ comps = [e \in CreateEntities |->
                   CASE e = Viewer -> ViewerComponents
                     [] e = UserDestination -> {"Transform", "GlobalTransform"}
                     [] OTHER -> {}]
    /\ portalParts = <<>>
    /\ gt = (Viewer :> PoseAt(1)) @@ (UserDestination :> PoseAt(1))
    /\ transform = <<>>
    /\ frustum = <<>>
    /\ gtChanged = {Viewer, UserDestination}
    /\ projChanged = {}
    /\ tfChanged = {}
    /\ images = [u \in Units |-> <<>>]
    /\ materials = {}
    /\ camViewport = <<>>
    /\ targetSize = <<1, 1>>
    /\ mirror = <<>>
    /\ phase = "idle"
    /\ todo = {}
    /\ cmds = <<>>
    /\ applied = {}
    /\ warns = <<>>
    /\ calls = <<>>
    /\ passLog = [pe \in PartsEntities |-> NoLog]
    /\ panic = <<>>
    /\ events = 0
    /\ partOf = <<>>
    /\ projection = (Viewer :> OrthographicProjection)
    /\ portalMode = <<>>
    /\ createPortal = <<>>
    /\ mathIn = <<>>
    /\ mathOut = <<>>

\* The mirror settings the user gives a destination.
MirrorSettings == {<<>>, <<VZero, V3(1, 0, 0)>>}

\* The portal modes the user gives a portal camera.
PortalModeSettings == {DefaultPortalMode, SphereHalfSpaceFrustum(VZero, RInt(1))}

\* The user acts once the portals are all created, on the unit created last.
CanCreateEvent == CanEvent /\ NextPortal = {}

LatestUnit == PartsE(Cardinality(DOMAIN createPortal))

\* No PostUpdate has run yet: the viewer's camera, spawned at startup, is
\* still flagged as changed.
AtStartup == phase = "idle" /\ Viewer \in gtChanged

\* A portal is spawned at startup with a CreatePortal: the observer runs and
\* its commands are applied before any system runs.
CreatePortalOnAdd ==
    /\ AtStartup
    /\ \E portal_entity \in NextPortal : \E create_portal_given \in CreatePortals :
        LET spawned == [CreateState EXCEPT
                           !.alive = @ \cup {portal_entity},
                           !.comps[portal_entity] = SpawnedPortalComponents,
                           !.gt = (portal_entity :> PoseAt(0)) @@ @,
                           !.gtChanged = @ \cup {portal_entity}]
        IN  /\ create_portal_given.destination.source = "Use"
               => create_portal_given.destination.entity \in alive
            /\ \E first_camera \in FirstCamerasFound(spawned) :
                LET w == create_portal_on_add(spawned, portal_entity, create_portal_given,
                                              first_camera)
                IN  /\ alive' = w.alive
                    /\ comps' = w.comps
                    /\ portalParts' = w.portalParts
                    /\ gt' = w.gt
                    /\ transform' = w.transform
                    /\ frustum' = w.frustum
                    /\ gtChanged' = w.gtChanged
                    /\ projChanged' = w.projChanged
                    /\ tfChanged' = w.tfChanged
                    /\ images' = w.images
                    /\ materials' = w.materials
                    /\ mirror' = w.mirror
                    /\ partOf' = w.partOf
                    /\ projection' = w.projection
                    /\ portalMode' = w.portalMode
                    /\ warns' = w.warns
                    /\ panic' = w.panic
                    /\ phase' = IF w.panic # <<>> THEN "crashed" ELSE phase
            /\ createPortal' = (portal_entity :> create_portal_given) @@ createPortal
    /\ UNCHANGED <<mathVars, plugin, strategy, camViewport, targetSize, todo, cmds, applied,
                   calls, passLog, events>>

\* The user sets PortalDestination.mirror of a destination.
SetMirror ==
    /\ CanCreateEvent
    /\ \E d \in {portalParts[LatestUnit].destination} :
        \E m \in MirrorSettings \ {mirror[d]} :
        /\ Has(d, {"PortalDestination"})
        /\ mirror' = [mirror EXCEPT ![d] = m]
    /\ events' = events + 1
    /\ UNCHANGED <<mathVars, plugin, strategy, alive, comps, portalParts, gt, transform, frustum,
                   gtChanged, projChanged, tfChanged, images, materials, camViewport,
                   targetSize, phase, todo, cmds, applied, warns, calls, passLog, panic,
                   partOf, projection, portalMode, createPortal>>

\* The user sets PortalCamera.portal_mode of a portal camera.
SetPortalMode ==
    /\ CanCreateEvent
    /\ \E pc \in {portalParts[LatestUnit].portal_camera} :
        \E m \in PortalModeSettings \ {portalMode[pc]} :
            /\ Has(pc, {"PortalCamera"})
            /\ portalMode' = [portalMode EXCEPT ![pc] = m]
    /\ events' = events + 1
    /\ UNCHANGED <<mathVars, plugin, strategy, alive, comps, portalParts, gt, transform, frustum,
                   gtChanged, projChanged, tfChanged, images, materials, camViewport,
                   targetSize, mirror, phase, todo, cmds, applied, warns, calls, passLog, panic,
                   partOf, projection, createPortal>>

\* The user changes the Projection of the viewer's camera.
SetMainCameraProjection ==
    /\ CanCreateEvent
    /\ Has(Viewer, {"Projection"})
    /\ \E p \in Projections \ {projection[Viewer]} :
        projection' = [projection EXCEPT ![Viewer] = p]
    /\ events' = events + 1
    /\ UNCHANGED <<mathVars, plugin, strategy, alive, comps, portalParts, gt, transform, frustum,
                   gtChanged, projChanged, tfChanged, images, materials, camViewport,
                   targetSize, mirror, phase, todo, cmds, applied, warns, calls, passLog, panic,
                   partOf, portalMode, createPortal>>

\* The user despawns the PortalParts entity of a unit.
ExtDespawnPortalParts ==
    /\ CanCreateEvent
    /\ \E pe \in UnitsFound \cap {LatestUnit} : alive' = alive \ {pe}
    /\ events' = events + 1
    /\ UNCHANGED <<mathVars, createVars, plugin, strategy, comps, portalParts, gt, transform,
                   frustum, gtChanged, projChanged, tfChanged, images, materials, camViewport,
                   targetSize, mirror, phase, todo, cmds, applied, warns, calls, passLog,
                   panic>>

CreateNext ==
    \/ CreatePortalOnAdd
    \/ ExtResize
    \/ SetMirror
    \/ SetPortalMode
    \/ SetMainCameraProjection
    \/ ExtDespawnPortalParts
    \/ BeginFrame
    \/ CheckPart
    \/ EndCheck
    \/ Propagate
    \/ UpdatePortalCamerasUnit
    \/ EndUpdatePortalCameras
    \/ UpdateFrusta
    \/ UpdatePortalCameraFrustaUnit
    \/ EndUpdatePortalCameraFrusta

SpecCreate == CreateInit /\ [][CreateNext]_vars

\* --------------------------------------------------------------- SpecResize
\* The world of the default plugin with the viewer's camera as every unit's
\* main camera, in which the window is resized and a portal material removed
\* between the frames.
ResizeInit ==
    /\ WorldInitWith(DefaultPlugin, PartsConfig(Viewer))
    /\ mathIn = <<>>
    /\ mathOut = <<>>

CanResizeEvent == phase = "idle" /\ events < MaxResizeEvents

\* The window the main camera renders to changes size.
ResizeViewport ==
    /\ CanResizeEvent
    /\ targetSize' \in Sizes \ {targetSize}
    /\ events' = events + 1
    /\ UNCHANGED <<mathVars, createVars, plugin, strategy, alive, comps, portalParts, gt,
                   transform, frustum, gtChanged, projChanged, tfChanged, images, materials,
                   camViewport, mirror, phase, todo, cmds, applied, warns, calls, passLog,
                   panic>>

\* The material of the first portal is removed from Assets<PortalMaterial>.
RemovePortalMaterial ==
    /\ CanResizeEvent
    /\ \E u \in materials \cap {1} : materials' = materials \ {u}
    /\ events' = events + 1
    /\ UNCHANGED <<mathVars, createVars, plugin, strategy, alive, comps, portalParts, gt,
                   transform, frustum, gtChanged, projChanged, tfChanged, images, camViewport,
                   targetSize, mirror, phase, todo, cmds, applied, warns, calls, passLog,
                   panic>>

\* No part is despawned here, so the back-reference check finds no orphan.
ResizeNext ==
    \/ ResizeViewport
    \/ RemovePortalMaterial
    \/ BeginFrame
    \/ EndCheck
    \/ Propagate
    \/ UpdatePortalCamerasUnit
    \/ EndUpdatePortalCameras
    \/ UpdateFrusta
    \/ UpdatePortalCameraFrustaUnit
    \/ EndUpdatePortalCameraFrusta

SpecResize == ResizeInit /\ [][ResizeNext]_vars

\* -------------------------------------------------------------- SpecCommand
\* The world of the default plugin with the viewer's camera as every unit's
\* main camera, in which entities are despawned by other systems and
\* DespawnPortalPartsEntityCommand is applied between the frames.
CommandInit ==
    /\ WorldInitWith(DefaultPlugin, PartsConfig(Viewer))
    /\ mathIn = <<>>
    /\ mathOut = <<>>

CanCommandEvent == phase = "idle" /\ events < MaxCommandEvents

\* The entities the command is applied to: those of the first unit, the
\* viewer's camera, and an entity that is no part of a unit.
CommandEntities == Disturbed \cup DisturbedParts \cup {ChildE(PortalE(1))}

\* The record of an application of the command to an entity.
CommandCall(entity) ==
    [parts |-> <<"none", 0>>, part |-> "DespawnPortalPartsEntityCommand", entity |-> entity]

\* Another system despawns a part or a PortalParts entity.
EntityDespawned ==
    /\ CanCommandEvent
    /\ \E e \in alive \cap (Disturbed \cup DisturbedParts) :
        alive' = alive \ Despawned(e)
    /\ events' = events + 1
    /\ UNCHANGED <<mathVars, createVars, plugin, strategy, comps, portalParts, gt, transform,
                   frustum, gtChanged, projChanged, tfChanged, images, materials, camViewport,
                   targetSize, mirror, phase, todo, cmds, applied, warns, calls, passLog,
                   panic>>

\* commands.entity(entity).queue(DespawnPortalPartsEntityCommand::default())
EntityCommandApplied ==
    /\ CanCommandEvent
    /\ \E entity \in alive \cap CommandEntities :
        /\ Immediate(despawn_portal_parts_entity_command(NoOut, entity))
        /\ calls' = Append(calls, CommandCall(entity))
    /\ events' = events + 1
    /\ UNCHANGED <<mathVars, createVars, plugin, strategy, comps, portalParts, gt, transform,
                   frustum, gtChanged, projChanged, tfChanged, images, materials, camViewport,
                   targetSize, mirror, todo, cmds, passLog>>

CommandNext ==
    \/ EntityDespawned
    \/ EntityCommandApplied
    \/ BeginFrame
    \/ CheckPart
    \/ EndCheck
    \/ Propagate
    \/ UpdatePortalCamerasUnit
    \/ EndUpdatePortalCameras
    \/ UpdateFrusta
    \/ UpdatePortalCameraFrustaUnit
    \/ EndUpdatePortalCameraFrusta

SpecCommand == CommandInit /\ [][CommandNext]_vars

\* --------------------------------------------- the legacy driver: SpecLegacy
\* update_portal_cameras of process.rs, written against an older Bevy: it
\* iterates over the portal cameras, each of which holds the PortalParts of
\* its unit (portalParts[pe] here, for the unit's key pe), and runs last in
\* the frame. The plugin is taken with check_portal_camera_despawn off.
LegacyPortalCamerasQuery(e) ==
    Has(e, {"PortalCamera", "Transform", "GlobalTransform", "Camera"})

LegacyMainCameraQuery(e) ==
    Has(e, {"GlobalTransform", "Camera"}) /\ "PortalCamera" \notin comps[e]

LegacyPortalQuery(e) == Has(e, {"GlobalTransform", "Portal"}) /\ "Camera" \notin comps[e]

LegacyDestinationQuery(e) ==
    Has(e, {"GlobalTransform", "PortalDestination"}) /\ "Camera" \notin comps[e]

\* All the parts the iteration for the portal camera of unit pe looks up resolve.
LegacyResolves(pe) ==
    /\ LegacyPortalCamerasQuery(portalParts[pe].portal_camera)
    /\ LegacyMainCameraQuery(portalParts[pe].main_camera)
    /\ LegacyPortalQuery(portalParts[pe].portal)
    /\ LegacyDestinationQuery(portalParts[pe].destination)

\* PortalCamera.plane_mode: None for the portals of this world.
PlaneMode(portal_camera) == <<>>

PLANE_MODE_TRIGGER == RNorm(1, 5)

\* The main camera is behind (Face::Back) or in front of (Face::Front) the
\* portal's plane by more than the trigger: the portal camera is not updated.
legacy_skip_update(plane_mode, main_camera_transform, portal_transform) ==
    IF plane_mode = <<>> THEN FALSE
    ELSE LET direction == TryNormalize(VSub(main_camera_transform.translation,
                                            portal_transform.translation))
             behindness == IF direction = <<>> THEN NonFinite
                           ELSE VDot(Forward(portal_transform), direction)
             beyond == RSub(behindness, PLANE_MODE_TRIGGER)
             before == RAdd(behindness, PLANE_MODE_TRIGGER)
         IN  \/ plane_mode[1] = "Back" /\ IsFinite(beyond) /\ beyond[1] > 0
             \/ plane_mode[1] = "Front" /\ IsFinite(before) /\ before[1] < 0

\* get_portal_camera_transform of process.rs, on Transforms.
legacy_get_portal_camera_transform(main_camera_transform, portal_transform, destination_transform) ==
    LET portal_camera_translation ==
            VAdd(VSub(main_camera_transform.translation, portal_transform.translation),
                 destination_transform.translation)
        rotation == MMul(MInverse(portal_transform.rotation), destination_transform.rotation)
    IN  \* rotate_around(destination_transform.translation, rotation)
        MkTransform(VAdd(destination_transform.translation,
                         MMulVec(rotation, VSub(portal_camera_translation,
                                                destination_transform.translation))),
                    MMul(rotation, main_camera_transform.rotation),
                    main_camera_transform.scale)

\* One iteration of the loop of the legacy update_portal_cameras, for the
\* portal camera of unit pe: the state after it, and whether the system
\* returned from inside the loop.
legacy_update_portal_cameras_unit(w, pe) ==
    LET parts == portalParts[pe]
        fail(from, entity, name_of_part) ==
            [w |-> [deal_with_part_query_error(from, parts, pe, strategy, QueryError(entity),
                                               name_of_part)
                       EXCEPT !.passLog[pe].outcome = "failed"],
             returned |-> TRUE]
    IN  IF ~LegacyMainCameraQuery(parts.main_camera)
        THEN fail(w, parts.main_camera, "Main Camera")
        ELSE IF ~LegacyPortalQuery(parts.portal)
        THEN fail(w, parts.portal, "Portal")
        ELSE IF legacy_skip_update(PlaneMode(parts.portal_camera),
                                   ComputeTransform(w.gt[parts.main_camera]),
                                   ComputeTransform(w.gt[parts.portal]))
        THEN [w |-> [w EXCEPT !.passLog[pe].outcome = "skipped"], returned |-> FALSE]
        ELSE
        LET portal_image_size == w.images[ImageOf(parts.portal_camera)]
            main_camera_viewport_size == get_viewport_size
        IN  IF portal_image_size = <<>> \/ main_camera_viewport_size = <<>>  \* unwrap()
            THEN [w |-> [w EXCEPT !.passLog[pe].outcome = "panicked",
                                  !.panic = <<Warning("unwrap",
                                      Message("called Option::unwrap() on a None value", pe,
                                              "Portal Camera", parts.portal_camera))>>],
                  returned |-> TRUE]
            ELSE
            LET resize == portal_image_size[1] * main_camera_viewport_size[2]
                          # main_camera_viewport_size[1] * portal_image_size[2]
                w1 == IF resize
                      THEN [w EXCEPT !.images[ImageOf(parts.portal_camera)] =
                                         main_camera_viewport_size,
                                     !.passLog[pe].resize_checked = TRUE,
                                     !.passLog[pe].image_written = TRUE]
                      ELSE [w EXCEPT !.passLog[pe].resize_checked = TRUE]
                new_portal_camera_transform ==
                    legacy_get_portal_camera_transform(
                        ComputeTransform(w.gt[parts.main_camera]),
                        ComputeTransform(w.gt[parts.portal]),
                        ComputeTransform(w.gt[parts.destination]))
            IN  IF ~LegacyDestinationQuery(parts.destination)
                THEN fail(w1, parts.destination, "Destination")
                ELSE [w |-> [w1 EXCEPT
                                !.transform[parts.portal_camera] = new_portal_camera_transform,
                                !.gt[parts.portal_camera] = ToGlobal(new_portal_camera_transform),
                                !.tfChanged = @ \cup {parts.portal_camera},
                                !.gtChanged = @ \cup {parts.portal_camera},
                                !.passLog[pe].outcome = "processed",
                                !.passLog[pe].pose_written = TRUE],
                      returned |-> FALSE]

\* Commands applied in the order queued, in the Bevy this driver is written
\* against: despawn() removes the entity alone, despawn_descendants() its
\* children.
RECURSIVE LegacyApplyCommands(_, _)
LegacyApplyCommands(queue, world) ==
    IF queue = <<>> THEN world
    ELSE LET c == Head(queue)
             next ==
                 IF c.entity \notin world.alive THEN world
                 ELSE IF c.op = "despawn"
                 THEN [alive |-> world.alive \ {c.entity},
                       applied |-> world.applied \cup {c}]
                 ELSE [alive |-> world.alive \ Children(c.entity),
                       applied |-> world.applied \cup {c}]
         IN  LegacyApplyCommands(Tail(queue), next)

LegacyInit ==
    /\ WorldInitWith(DefaultPlugin, PartsConfig(Viewer))
    /\ mathIn = <<>>
    /\ mathOut = <<>>

\* Another system despawns a part or the viewer's camera.
LegacyEntityDespawned ==
    /\ phase = "idle"
    /\ events < MaxLegacyEvents
    /\ \E e \in alive \cap Disturbed : alive' = alive \ {e}
    /\ events' = events + 1
    /\ UNCHANGED <<mathVars, createVars, plugin, strategy, comps, portalParts, gt, transform,
                   frustum, gtChanged, projChanged, tfChanged, images, materials, camViewport,
                   targetSize, mirror, phase, todo, cmds, applied, warns, calls, passLog,
                   panic>>

\* The legacy update_portal_cameras starts: the portal cameras it iterates over.
LegacyBeginUpdate ==
    /\ phase = "idle"
    /\ phase' = "legacy"
    /\ todo' = {pe \in PartsEntities : LegacyPortalCamerasQuery(portalParts[pe].portal_camera)}
    /\ warns' = <<>>
    /\ calls' = <<>>
    /\ passLog' = [pe \in PartsEntities |-> NoLog]
    /\ UNCHANGED <<mathVars, createVars, plugin, strategy, alive, comps, portalParts, gt,
                   transform, frustum, gtChanged, projChanged, tfChanged, images, materials,
                   camViewport, targetSize, mirror, cmds, applied, panic, events>>

\* One iteration, in any order of the portal cameras; a return from inside
\* the loop leaves the cameras not yet visited unvisited.
LegacyUpdatePortalCamera ==
    /\ phase = "legacy"
    /\ \E pe \in todo :
        LET r == legacy_update_portal_cameras_unit(PassState, pe)
        IN  /\ Written(r.w)
            /\ todo' = IF r.returned THEN {} ELSE todo \ {pe}
    /\ UNCHANGED <<mathVars, createVars, plugin, strategy, alive, comps, portalParts, materials,
                   camViewport, targetSize, mirror, applied, events>>

\* The legacy update_portal_cameras has returned: its commands are applied.
LegacyEndUpdate ==
    /\ phase = "legacy"
    /\ todo = {}
    /\ LET world == LegacyApplyCommands(cmds, [alive |-> alive, applied |-> applied])
       IN  alive' = world.alive /\ applied' = world.applied /\ cmds' = <<>>
    /\ phase' = "idle"
    /\ gtChanged' = {}
    /\ tfChanged' = {}
    /\ projChanged' = {}
    /\ UNCHANGED <<mathVars, createVars, plugin, strategy, comps, portalParts, gt, transform,
                   frustum, images, materials, camViewport, targetSize, mirror, todo, warns,
                   calls, passLog, panic, events>>

LegacyNext ==
    \/ LegacyEntityDespawned
    \/ LegacyBeginUpdate
    \/ LegacyUpdatePortalCamera
    \/ LegacyEndUpdate

SpecLegacy == LegacyInit /\ [][LegacyNext]_vars

\* ----------------------------------------------------------------- SpecPose
\* The pose functions applied to inputs drawn from bounded sets: rotations
\* with rational entries, uniform, non-uniform and degenerate scales.
RotY90 == <<V3(0, 0, -1), V3(0, 1, 0), V3(1, 0, 0)>>

\* The rotation about Y of cosine 3/5 and sine 4/5.
RotY345 == <<<<RNorm(3, 5), RInt(0), RNorm(-4, 5)>>, V3(0, 1, 0),
             <<RNorm(4, 5), RInt(0), RNorm(3, 5)>>>>

Translations ==
    {V3(x, 0, z) : x \in (-MaxCoord)..MaxCoord, z \in 0..MaxCoord} \cup {V3(0, 0, 20)}

MainCameraTransforms ==
    {MkTransform(t, r, V3(1, 1, 1)) : t \in Translations, r \in {MIdentity, RotY345}}

Scales == {V3(k, k, k) : k \in 1..MaxScale} \cup {V3(1, MaxScale, 1), V3(0, 1, 1)}

PortalPoses ==
    {ToGlobal(MkTransform(V3(x, 0, 0), r, s)) :
        x \in 0..MaxCoord, r \in {MIdentity, RotY90, RotY345}, s \in Scales}

DestinationPoses ==
    {Affine(MIdentity, V3(20, 0, 0)), ToGlobal(MkTransform(V3(1, 0, 1), RotY90, V3(2, 2, 2)))}

\* Mirror planes: an origin and a normal, the zero normal included.
Mirrors ==
    {<<o, n>> : o \in {VZero, V3(MaxCoord, 0, 0)},
                n \in {V3(1, 0, 0), V3(1, 2, 0), V3(0, 0, 2), VZero}}

\* The inputs: every camera with every portal and destination (the
\* destination at the portal included) and one mirror plane, and every camera
\* with every mirror plane and one portal.
PoseInputs ==
    {[main_camera |-> m, portal |-> p, destination |-> d, mirror |-> <<VZero, V3(1, 0, 0)>>] :
        m \in MainCameraTransforms, p \in PortalPoses, d \in DestinationPoses}
    \cup
    {[main_camera |-> m, portal |-> p, destination |-> p, mirror |-> <<VZero, V3(1, 0, 0)>>] :
        m \in MainCameraTransforms, p \in PortalPoses}
    \cup
    {[main_camera |-> m, portal |-> AffineIdentity, destination |-> AffineIdentity,
      mirror |-> mi] : m \in MainCameraTransforms, mi \in Mirrors}

PoseInit ==
    /\ WorldInitWith(DefaultPlugin, PartsConfig(Viewer))
    /\ mathIn \in PoseInputs
    /\ mathOut = <<>>

\* get_portal_camera_transform without a mirror, on the inputs drawn.
GetPortalCameraTransform ==
    /\ mathIn # <<>>
    /\ mathOut = <<>>
    /\ mathOut' = <<[op |-> "get_portal_camera_transform",
                     value |-> get_portal_camera_transform(ToGlobal(mathIn.main_camera),
                                   mathIn.portal, mathIn.destination, <<>>)]>>
    /\ UNCHANGED <<worldVars, mathIn>>

\* mirror_transform on the main camera's Transform.
MirrorTransform ==
    /\ mathIn # <<>>
    /\ mathOut = <<>>
    /\ mathOut' = <<[op |-> "mirror_transform",
                     value |-> mirror_transform(mathIn.main_camera, mathIn.mirror[1],
                                                mathIn.mirror[2])]>>
    /\ UNCHANGED <<worldVars, mathIn>>

\* mirror_transform again, with the same plane, on the Transform it returned.
MirrorTransformAgain ==
    /\ Len(mathOut) = 1
    /\ mathOut[1].op = "mirror_transform"
    /\ mathOut' = Append(mathOut,
                     [op |-> "mirror_transform",
                      value |-> mirror_transform(mathOut[1].value, mathIn.mirror[1],
                                                 mathIn.mirror[2])])
    /\ UNCHANGED <<worldVars, mathIn>>

PoseNext ==
    \/ GetPortalCameraTransform
    \/ MirrorTransform
    \/ MirrorTransformAgain

SpecPose == PoseInit /\ [][PoseNext]_vars

\* Vec3::NEG_Z.extend(0.)
NegZHalfSpace == HalfSpaceNew(Extend(V3(0, 0, -1), RInt(0)))

PortalModes ==
    {NoFrustum,
     HalfSpaceFrustum(<<>>, FALSE), HalfSpaceFrustum(<<>>, TRUE),
     HalfSpaceFrustum(<<NegZHalfSpace>>, FALSE), HalfSpaceFrustum(<<NegZHalfSpace>>, TRUE),
     HalfSpaceFrustum(<<HalfSpaceNew(Extend(V3(2, 0, 0), RInt(2)))>>, FALSE),
     SphereHalfSpaceFrustum(VZero, RInt(1)),
     SphereHalfSpaceFrustum(V3(1, 0, 0), RInt(2))}

\* Portal-camera poses: uniformly scaled, as the half-spaces of a frustum
\* are normalized.
FrustumCameraPoses ==
    {ToGlobal(MkTransform(V3(x, 0, z), r, V3(k, k, k))) :
        x \in {0, MaxCoord}, z \in {-5, 0, 5}, r \in {MIdentity, RotY345}, k \in 1..MaxScale}

FrustumDestinationPoses ==
    DestinationPoses
    \cup {ToGlobal(MkTransform(V3(0, 0, -1), RotY345, V3(1, MaxScale, 2))),
          ToGlobal(MkTransform(V3(MaxCoord, 0, 0), MIdentity, V3(1, 1, -1)))}

FrustumInputs ==
    [portal_camera : [portal_mode : PortalModes],
     portal_camera_transform : FrustumCameraPoses,
     destination_transform : FrustumDestinationPoses,
     projection : Projections]

FrustumInit ==
    /\ WorldInitWith(DefaultPlugin, PartsConfig(Viewer))
    /\ mathIn \in FrustumInputs
    /\ mathOut = <<>>

\* get_frustum on the inputs drawn.
GetFrustum ==
    /\ mathIn # <<>>
    /\ mathOut = <<>>
    /\ mathOut' = <<[op |-> "get_frustum",
                     value |-> get_frustum(mathIn.portal_camera,
                                   mathIn.portal_camera_transform,
                                   mathIn.destination_transform, mathIn.projection)]>>
    /\ UNCHANGED <<worldVars, mathIn>>

\* get_frustum again with the half-space Vec3::NEG_Z.extend(0.) given, on
\* inputs drawn with no half-space.
GetFrustumWithNegZ ==
    /\ Len(mathOut) = 1
    /\ mathOut[1].op = "get_frustum"
    /\ mathIn.portal_camera.portal_mode.kind = "MaskedImageHalfSpaceFrustum"
    /\ mathIn.portal_camera.portal_mode.half_space = <<>>
    /\ mathOut' = Append(mathOut,
                     [op |-> "get_frustum",
                      value |-> get_frustum(
                          [portal_mode |-> HalfSpaceFrustum(<<NegZHalfSpace>>,
                               mathIn.portal_camera.portal_mode.switch_normal)],
                          mathIn.portal_camera_transform,
                          mathIn.destination_transform, mathIn.projection)])
    /\ UNCHANGED <<worldVars, mathIn>>

FrustumNext ==
    \/ GetFrustum
    \/ GetFrustumWithNegZ

SpecFrustum == FrustumInit /\ [][FrustumNext]_vars

\* ------------------------------------------------- properties: the update
\* The name deal_with_part_query_error is given for each kind of part.
NameOfPart(k) ==
    CASE k = "portal_camera" -> "Portal Camera"
      [] k = "main_camera" -> "Main Camera"
      [] k = "portal" -> "Portal"
      [] k = "destination" -> "Destination"

ResolvesKind(pe, k) ==
    CASE k = "portal_camera" -> PortalCamerasQuery(portalParts[pe].portal_camera)
      [] k = "main_camera" -> MainCameraQuery(portalParts[pe].main_camera)
      [] k = "portal" -> PortalQuery(portalParts[pe].portal)
      [] k = "destination" -> DestinationQuery(portalParts[pe].destination)

Unresolved(pe) == {k \in Kinds : ~ResolvesKind(pe, k)}

\* The first unresolvable part in the order portal camera, main camera,
\* portal, destination.
FirstUnresolved(pe) ==
    IF "portal_camera" \in Unresolved(pe) THEN "Portal Camera"
    ELSE IF "main_camera" \in Unresolved(pe) THEN "Main Camera"
    ELSE IF "portal" \in Unresolved(pe) THEN "Portal"
    ELSE "Destination"

\* One of the three poses the portal camera follows is flagged changed.
ShouldUpdateTransform(pe) ==
    \/ portalParts[pe].portal \in gtChanged
    \/ portalParts[pe].destination \in gtChanged
    \/ portalParts[pe].main_camera \in gtChanged

\* Every unit that resolves has had its resize check and its pose update.
ResolvingUnitsProcessed ==
    \A pe \in UnitsFound :
        Resolves(pe) =>
            /\ passLog[pe].resize_checked
            /\ ShouldUpdateTransform(pe) => passLog[pe].pose_written

SomeUnitFailed == \E q \in PartsEntities : passLog[q].outcome = "failed"

\* C1: with no Panic policy, when a pass of update_portal_cameras in which a
\* unit failed to resolve is over (every unit visited, or the program
\* stopped), every unit whose four parts resolve has had its resize check
\* and, if a pose it follows changed, its pose update.
C1_FailingUnitDoesNotStopPass ==
    (/\ ~HasPanic(strategy)
     /\ SomeUnitFailed
     /\ (phase = "cameras" /\ todo = {}) \/ phase = "crashed")
    => ResolvingUnitsProcessed

\* The same for the passes that visit every unit: a failing unit never ends
\* the pass, and the units visited after it are processed as usual.
C1_HoldsInEveryCompletedPass ==
    (~HasPanic(strategy) /\ SomeUnitFailed /\ phase = "cameras" /\ todo = {})
    => ResolvingUnitsProcessed

\* C2: the iteration of update_portal_cameras for a unit one of whose parts
\* does not resolve writes no portal image, no Transform, no GlobalTransform
\* and no change flag, and calls deal_with_part_query_error exactly once, for
\* the first unresolvable part in the order portal camera, main camera,
\* portal, destination.
C2_FailedUnitGetsNoFurtherProcessing ==
    [][\A pe \in PartsEntities :
          (phase = "cameras" /\ pe \in todo /\ todo' = todo \ {pe} /\ ~Resolves(pe))
          => /\ UNCHANGED <<images, transform, gt, gtChanged, tfChanged, projChanged>>
             /\ calls' = Append(calls, [parts |-> pe, part |-> FirstUnresolved(pe)])
             /\ passLog'[pe] = [NoLog EXCEPT !.outcome = "failed"]]_vars

\* A unit with at least two unresolvable parts has failed, and the call made
\* for it names the first of them.
C2_Witness ==
    /\ phase = "cameras"
    /\ \E pe \in PartsEntities :
        /\ passLog[pe].outcome = "failed"
        /\ Cardinality(Unresolved(pe)) >= 2
        /\ \E i \in DOMAIN calls : calls[i] = [parts |-> pe, part |-> FirstUnresolved(pe)]

\* ---------------------------------------------- properties: despawn policy
WarnThenDespawnEntityForAll ==
    MkStrategy("WarnThenDespawnEntity", "WarnThenDespawnEntity",
               "WarnThenDespawnEntity", "WarnThenDespawnEntity")

\* The commands and the warnings of the running system that were made for unit pe.
CommandsFor(pe) == {i \in DOMAIN cmds : cmds[i].parts = pe}

WarningsFor(pe) == {i \in DOMAIN warns : warns[i].error_message.parts = pe}

MissingKinds(pe) == {k \in Kinds : portalParts[pe][k] \notin alive}

\* Unit pe failed in the running pass with exactly one part despawned.
OnePartDespawned(pe) ==
    /\ phase = "cameras"
    /\ passLog[pe].outcome = "failed"
    /\ Cardinality(MissingKinds(pe)) = 1

\* A despawn of the part of kind k of unit pe is queued, a warning is logged
\* for it, and nothing is queued for its children.
QueuedWithWarning(pe, k) ==
    /\ \E i \in CommandsFor(pe) :
          /\ cmds[i].op = "despawn"
          /\ cmds[i].entity = portalParts[pe][k]
          /\ cmds[i].entity_type = NameOfPart(k)
    /\ \E i \in WarningsFor(pe) : warns[i].entity_type = NameOfPart(k)
    /\ \A i \in DOMAIN cmds :
          /\ cmds[i].entity \notin Children(portalParts[pe][k])
          /\ cmds[i].entity = portalParts[pe][k] => cmds[i].op = "despawn"

\* C3: with WarnThenDespawnEntity for every kind, a unit that fails in the
\* update pass with exactly one of its four parts despawned has a despawn
\* queued and a warning logged for each of the three parts that exist, and
\* nothing else: no despawn of children is queued.
C3_RemainingThreePartsDespawnedWithWarning ==
    \A pe \in PartsEntities :
        (strategy = WarnThenDespawnEntityForAll /\ OnePartDespawned(pe))
        => /\ \A k \in Kinds \ MissingKinds(pe) : QueuedWithWarning(pe, k)
           /\ Cardinality(CommandsFor(pe)) = 3
           /\ Cardinality(WarningsFor(pe)) = 3

\* The portal of a unit was despawned by another system, and the pass has
\* queued the despawn of the unit's other three parts.
C3_Witness ==
    \E pe \in PartsEntities :
        /\ strategy = WarnThenDespawnEntityForAll
        /\ OnePartDespawned(pe)
        /\ MissingKinds(pe) = {"portal"}
        /\ Cardinality(CommandsFor(pe)) = 3

\* C4: with no Panic policy in the strategy resource, no system panics
\* because a part is despawned or lacks key components (the only panic left
\* is the unwrap of the portal image), and every unit that failed to resolve
\* in update_portal_cameras was handed to deal_with_part_query_error.
C4_NoPanicWithoutPanicPolicy ==
    ~HasPanic(strategy) =>
        /\ panic = <<>> \/ panic[1].entity_type = "unwrap"
        /\ phase = "cameras" =>
              \A pe \in PartsEntities :
                  passLog[pe].outcome = "failed" => \E i \in DOMAIN calls : calls[i].parts = pe

\* A frame has reached the end of update_portal_camera_frusta with a unit
\* that failed to resolve, a part that is gone, and no panic.
C4_Witness ==
    /\ ~HasPanic(strategy)
    /\ phase = "frusta"
    /\ todo = {}
    /\ panic = <<>>
    /\ \E pe \in PartsEntities : passLog[pe].outcome = "failed" /\ MissingKinds(pe) # {}

\* C5: no despawn is ever decided by the policy Leave, and under a
\* predefined strategy no entity recorded as the main camera of a unit is
\* despawned by a command of this crate.
C5_LeaveIsNeverDespawned ==
    /\ \A c \in applied : c.policy # "Leave"
    /\ \A i \in DOMAIN cmds : cmds[i].policy # "Leave"
    /\ strategy \in Predefined =>
          \A pe \in PartsEntities : \A c \in applied :
              c.op = "despawn" => c.entity # portalParts[pe].main_camera

\* The part of C5 that holds: no despawn is ever decided by the policy Leave.
C5_NoDespawnDecidedByLeave ==
    /\ \A c \in applied : c.policy # "Leave"
    /\ \A i \in DOMAIN cmds : cmds[i].policy # "Leave"

\* C6: the strategy installed when the plugin is given none is
\* WarnThenDespawnEntity for the portal, the destination and the portal
\* camera and Leave for the main camera; the despawns it decides are never
\* of a main camera, and they leave the children of the despawned part alive.
C6_DefaultDespawnsPartsWithoutChildren ==
    plugin.despawn_strategy = <<>> =>
        /\ strategy = MkStrategy("Leave", "WarnThenDespawnEntity",
                                 "WarnThenDespawnEntity", "WarnThenDespawnEntity")
        /\ \A c \in applied :
              c.op = "despawn" =>
                  /\ c.entity_type # "Main Camera"
                  /\ Children(c.entity) \subseteq alive

\* Unit pe was handed to the despawn policy in the update pass of this frame,
\* and the commands of that pass have been applied.
TornDown(pe) ==
    /\ phase \in {"update_frusta", "frusta"}
    /\ passLog[pe].outcome = "failed"

Invertible(a) ==
    LET det == MDeterminant(a.matrix3)
    IN  IsFinite(det) /\ det[1] # 0

\* get_portal_camera_transform has been applied to the inputs drawn.
Solved == mathOut # <<>> /\ mathOut[1].op = "get_portal_camera_transform"

\* C8: with the destination at the portal, an invertible portal pose and no
\* mirror, get_portal_camera_transform returns the main camera's pose.
C8_IdentityProperty ==
    (Solved /\ mathIn.destination = mathIn.portal /\ Invertible(mathIn.portal))
    => mathOut[1].value = ToGlobal(mathIn.main_camera)

\* The identity property on a portal that is moved, rotated and scaled, for
\* a camera that is moved and rotated.
C8_Witness ==
    /\ Solved
    /\ mathIn.destination = mathIn.portal
    /\ Invertible(mathIn.portal)
    /\ mathIn.portal.matrix3 = ToGlobal(MkTransform(VZero, RotY345, V3(1, MaxScale, 1))).matrix3
    /\ mathIn.portal.translation # VZero
    /\ mathIn.main_camera.rotation = RotY345
    /\ mathIn.main_camera.translation = V3(0, 0, 20)
    /\ mathOut[1].value = ToGlobal(mathIn.main_camera)

BasisPoints == {VZero, V3(1, 0, 0), V3(0, 1, 0), V3(0, 0, 1)}

\* The inputs of the example: portal at the origin, destination at (20,0,0),
\* main camera at (0,0,20), none of them rotated or scaled.
ExampleInputs ==
    /\ mathIn.portal = AffineIdentity
    /\ mathIn.destination = Affine(MIdentity, V3(20, 0, 0))
    /\ mathIn.main_camera = MkTransform(V3(0, 0, 20), MIdentity, V3(1, 1, 1))

\* C9: without a mirror the pose returned sends a point p of the camera's
\* space where the destination sends the point that the portal sends to the
\* main camera's image of p (destination after inverse portal after main
\* camera); with the portal at the origin, the destination at (20,0,0) and
\* the main camera at (0,0,20) its translation is (20,0,20).
C9_DestinationInversePortalMain ==
    Solved =>
        /\ Invertible(mathIn.portal) =>
              \A p \in BasisPoints :
                  LET seen  == TransformPoint(ToGlobal(mathIn.main_camera), p)
                      local == TransformPoint(AffineInverse(mathIn.portal), seen)
                  IN  /\ TransformPoint(mathIn.portal, local) = seen
                      /\ TransformPoint(mathOut[1].value, p)
                           = TransformPoint(mathIn.destination, local)
        /\ ExampleInputs => mathOut[1].value.translation = V3(20, 0, 20)

\* The example has been computed.
C9_Witness ==
    /\ Solved
    /\ ExampleInputs
    /\ mathOut[1].value.translation = V3(20, 0, 20)

\* mirror_transform has been applied twice with the same plane.
MirroredTwice == Len(mathOut) = 2 /\ mathOut[2].op = "mirror_transform"

\* C10: mirror_transform applied twice with the same origin and the same
\* non-zero normal returns the translation, the forward direction and the up
\* direction of the Transform it started from.
C10_MirrorInvolution ==
    (MirroredTwice /\ mathIn.mirror[2] # VZero) =>
        /\ mathOut[2].value.translation = mathIn.main_camera.translation
        /\ Forward(mathOut[2].value) = Forward(mathIn.main_camera)
        /\ Up(mathOut[2].value) = Up(mathIn.main_camera)

\* A rotated camera mirrored twice in a plane off the origin whose normal is
\* neither a unit vector nor along an axis; the first mirroring moved it.
C10_Witness ==
    /\ MirroredTwice
    /\ mathIn.mirror = <<V3(MaxCoord, 0, 0), V3(1, 2, 0)>>
    /\ mathIn.main_camera.rotation = RotY345
    /\ mathOut[1].value.translation # mathIn.main_camera.translation
    /\ Forward(mathOut[1].value) # Forward(mathIn.main_camera)
    /\ mathOut[2].value = mathIn.main_camera

\* ------------------------------------------------- properties: the resize
\* The iteration of update_portal_cameras for unit pe went through the resize
\* step and the pose step.
Processed(pe) == passLog[pe].outcome = "processed"

ImageSize(pe) == images[ImageOf(portalParts[pe].portal_camera)]

MaterialExists(pe) == MaterialOf(portalParts[pe].portal) \in materials

\* C15: once update_portal_cameras has processed a unit whose four parts
\* resolve, if the main camera's viewport size is found and the portal image
\* and the portal material exist, the size of the portal image is the
\* viewport size.
C15_ImageMatchesViewport ==
    \A pe \in PartsEntities :
        (/\ phase \in {"cameras", "update_frusta", "frusta", "crashed"}
         /\ Processed(pe)
         /\ get_viewport_size # <<>>
         /\ ImageSize(pe) # <<>>
         /\ MaterialExists(pe))
        => ImageSize(pe) = get_viewport_size

\* The viewport changed size, and the pass has resized the image of a unit to it.
C15_Witness ==
    /\ phase = "update_frusta"
    /\ \E pe \in PartsEntities :
        /\ Processed(pe)
        /\ passLog[pe].image_written
        /\ MaterialExists(pe)
        /\ get_viewport_size = <<2, 1>>
        /\ ImageSize(pe) = <<2, 1>>

\* update_portal_cameras takes the step of unit pe, whose parts resolve.
ResolvedUnitStep(pe) ==
    /\ phase = "cameras"
    /\ pe \in todo
    /\ todo' = todo \ {pe}
    /\ Resolves(pe)

\* C16: the resize step run again right after the resize step of a unit,
\* with the same viewport size, writes no image; and in a pass where, of the
\* poses a unit follows, only the main camera's is flagged changed and the
\* image has the viewport's size, the resize check runs, no image is written
\* and the pose is.
C16_ResizeIdempotent ==
    [][\A pe \in PartsEntities :
          ResolvedUnitStep(pe) =>
              /\ panic' = <<>> =>
                    LET again == resize_image_if_needed(
                                     [PassState EXCEPT
                                         !.images = images',
                                         !.warns = <<>>,
                                         !.passLog = [q \in PartsEntities |-> NoLog]],
                                     pe, portalParts[pe].portal_camera,
                                     MaterialOf(portalParts[pe].portal))
                    IN  /\ again.w.images = images'
                        /\ ~again.w.passLog[pe].image_written
              /\ (/\ ImageSize(pe) # <<>>
                  /\ ImageSize(pe) = get_viewport_size
                  /\ portalParts[pe].main_camera \in gtChanged
                  /\ portalParts[pe].portal \notin gtChanged
                  /\ portalParts[pe].destination \notin gtChanged)
                 => /\ passLog'[pe].resize_checked
                    /\ ~passLog'[pe].image_written
                    /\ ~passLog'[pe].resized
                    /\ images' = images
                    /\ passLog'[pe].pose_written]_vars

\* A pass after the main camera alone moved: the unit had its resize check,
\* its image was not written, its pose was.
C16_Witness ==
    /\ phase = "cameras"
    /\ events = 1
    /\ \E pe \in PartsEntities :
        /\ Processed(pe)
        /\ portalParts[pe].main_camera \in gtChanged
        /\ portalParts[pe].portal \notin gtChanged
        /\ portalParts[pe].destination \notin gtChanged
        /\ passLog[pe].resize_checked
        /\ ~passLog[pe].image_written
        /\ passLog[pe].pose_written
        /\ ImageSize(pe) = get_viewport_size

\* The iteration of update_portal_cameras for unit pe, whose parts resolved,
\* is over: it went to its end, or it panicked.
Visited(pe) == passLog[pe].outcome \in {"processed", "panicked"}

\* The resize step of unit pe could not locate the portal image, or could
\* not locate the portal material when it had a resize to make.
ResizeFailed(pe) ==
    \/ ImageSize(pe) = <<>>
    \/ /\ ~MaterialExists(pe)
       /\ get_viewport_size # <<>>
       /\ ImageSize(pe) # get_viewport_size

ResizeWarned(pe) == \E i \in WarningsFor(pe) : warns[i].entity_type = "resize"

\* C17: when the resize step of a unit cannot locate the portal image or the
\* portal material, the iteration does not panic: it logs a warning and goes
\* on to the pose update of the unit.
C17_ResizeFailureOnlyWarns ==
    \A pe \in PartsEntities :
        (phase \in {"cameras", "crashed"} /\ Visited(pe) /\ ResizeFailed(pe))
        => /\ Processed(pe)
           /\ ResizeWarned(pe)
           /\ ShouldUpdateTransform(pe) => passLog[pe].pose_written

\* The part of C17 that holds: with the image there and the material
\* missing, a warning is logged, the image keeps its size and the pose
\* update is made.
C17_MissingMaterialOnlyWarns ==
    \A pe \in PartsEntities :
        (/\ phase \in {"cameras", "crashed"}
         /\ Visited(pe)
         /\ ResizeFailed(pe)
         /\ ImageSize(pe) # <<>>)
        => /\ Processed(pe)
           /\ ResizeWarned(pe)
           /\ ~passLog[pe].image_written
           /\ ShouldUpdateTransform(pe) => passLog[pe].pose_written

\* C18: a unit whose portal pose has no inverse gets no pose update in the
\* pass: the portal camera's pose is not written, and a warning is logged.
C18_NonInvertiblePortalSkipsPose ==
    \A pe \in PartsEntities :
        (/\ phase = "cameras"
         /\ Processed(pe)
         /\ ~Invertible(gt[portalParts[pe].portal]))
        => /\ ~passLog[pe].pose_written
           /\ WarningsFor(pe) # {}

\* What the code does instead: the pose written for such a unit is not finite.
C18_NonInvertiblePortalGivesNonFinitePose ==
    \A pe \in PartsEntities :
        (/\ phase = "cameras"
         /\ Processed(pe)
         /\ passLog[pe].pose_written
         /\ ~Invertible(gt[portalParts[pe].portal]))
        => ~AffineIsFinite(gt[portalParts[pe].portal_camera])

\* --------------------------------------- properties: change detection
\* The pose get_portal_camera_transform gives for unit pe.
ExpectedPose(pe) ==
    get_portal_camera_transform(gt[portalParts[pe].main_camera], gt[portalParts[pe].portal],
                                gt[portalParts[pe].destination],
                                mirror[portalParts[pe].destination])

\* The step leaves the pose of the portal camera of unit pe as it was.
PoseNotWritten(pe) ==
    LET pc == portalParts[pe].portal_camera
    IN  /\ transform'[pc] = transform[pc]
        /\ gt'[pc] = gt[pc]
        /\ (pc \in gtChanged') = (pc \in gtChanged)
        /\ (pc \in tfChanged') = (pc \in tfChanged)
        /\ ~passLog'[pe].pose_written

\* The step writes the recomputed pose to the Transform and to the
\* GlobalTransform of the portal camera of unit pe.
PoseWritten(pe) ==
    LET pc == portalParts[pe].portal_camera
    IN  /\ gt'[pc] = ExpectedPose(pe)
        /\ transform'[pc] = ComputeTransform(ExpectedPose(pe))
        /\ pc \in gtChanged'
        /\ pc \in tfChanged'
        /\ passLog'[pe].pose_written

\* The step writes no pose but the portal camera's.
OnlyPortalCameraPoseWritten(pe) ==
    \A e \in DOMAIN gt : e # portalParts[pe].portal_camera => gt'[e] = gt[e]

\* C19: the iteration of update_portal_cameras for a unit whose parts
\* resolve writes the portal camera's Transform and GlobalTransform with the
\* recomputed pose when the pose of the main camera, of the portal or of the
\* destination is flagged changed, and leaves them as they are when none is;
\* it never writes another entity's pose.
C19_PoseWrittenIffFlagged ==
    [][\A pe \in PartsEntities :
          ResolvedUnitStep(pe) =>
              /\ IF ShouldUpdateTransform(pe) THEN PoseWritten(pe) ELSE PoseNotWritten(pe)
              /\ OnlyPortalCameraPoseWritten(pe)]_vars

\* The same for the iterations that do not end in the panic of the resize step.
C19_HoldsUnlessResizePanics ==
    [][\A pe \in PartsEntities :
          (ResolvedUnitStep(pe) /\ panic' = <<>>) =>
              /\ IF ShouldUpdateTransform(pe) THEN PoseWritten(pe) ELSE PoseNotWritten(pe)
              /\ OnlyPortalCameraPoseWritten(pe)]_vars

\* In this frame update_portal_cameras wrote the pose of the portal camera
\* of unit pe, or reported a resize of its image.
PoseWrittenOrResized(pe) == passLog[pe].pose_written \/ passLog[pe].resized

FrustumRefreshed(pe) == frustum[portalParts[pe].portal_camera].by = "get_frustum"

\* update_portal_camera_frusta has visited every unit of the frame.
FrustaPassOver == phase = "frusta" /\ todo = {}

\* update_portal_camera_frusta takes the step of unit pe.
FrustaUnitStep(pe) ==
    /\ phase = "frusta"
    /\ pe \in todo
    /\ todo' = todo \ {pe}

\* C20: when update_portal_camera_frusta has visited every unit, the Frustum
\* of every portal camera whose pose update_portal_cameras wrote, or whose
\* image it resized, in this frame has been written by it in this frame;
\* and its step for a unit whose portal camera has neither its
\* GlobalTransform nor its Projection flagged changed leaves the Frustum as
\* it is.
C20_FrustumFollowsPoseAndResize ==
    [][\A pe \in PartsEntities :
          LET pc == portalParts[pe].portal_camera
          IN  /\ (FrustaPassOver /\ PoseWrittenOrResized(pe)) => FrustumRefreshed(pe)
              /\ (/\ FrustaUnitStep(pe)
                  /\ pc \in DOMAIN frustum
                  /\ pc \notin gtChanged
                  /\ pc \notin projChanged)
                 => frustum'[pc] = frustum[pc]]_vars

\* The end of the frusta pass of a frame in which the viewport changed size
\* and nothing moved: a unit's image was resized, its pose was not written,
\* and its Frustum has been written.
C20_Witness ==
    /\ FrustaPassOver
    /\ \E pe \in PartsEntities :
        /\ passLog[pe].resized
        /\ passLog[pe].image_written
        /\ ~passLog[pe].pose_written
        /\ portalParts[pe].portal_camera \notin gtChanged
        /\ FrustumRefreshed(pe)

\* --------------------------------------------------- properties: frustum
\* get_frustum has been applied to the inputs drawn.
FrustumComputed == mathOut # <<>> /\ mathOut[1].op = "get_frustum"

\* The value n . p + d of a half-space at a point.
Evaluate(h, p) == RAdd(VDot(Xyz(h), p), h[4])

Sign(r) == IF r[1] > 0 THEN 1 ELSE IF r[1] < 0 THEN -1 ELSE 0

\* The clip coordinates of a world point seen by the camera drawn: the
\* point taken to the camera's space, then through the projection.
ClipOf(p) ==
    Mat4MulVec(mathIn.projection.clip_from_view,
               Extend(TransformPoint(AffineInverse(mathIn.portal_camera_transform), p),
                      RInt(1)))

\* The combination of clip coordinates that is not negative inside the
\* frustum: w + x (left), w - x (right), w + y (bottom), w - y (top) and
\* w - z (near, the depth being reversed).
ClipSide(i, p) ==
    LET c == ClipOf(p)
    IN  CASE i = 1 -> RAdd(c[4], c[1])
          [] i = 2 -> RSub(c[4], c[1])
          [] i = 3 -> RAdd(c[4], c[2])
          [] i = 4 -> RSub(c[4], c[2])
          [] i = 5 -> RSub(c[4], c[3])

\* h is the half-space of the i-th clip combination: its normal has length
\* one, and its value is a positive multiple of the combination.
Extracted(h, i) ==
    /\ VDot(Xyz(h), Xyz(h)) = RInt(1)
    /\ \A p \in BasisPoints :
          /\ Sign(Evaluate(h, p)) = Sign(ClipSide(i, p))
          /\ \A q \in BasisPoints :
                RMul(Evaluate(h, p), ClipSide(i, q)) = RMul(Evaluate(h, q), ClipSide(i, p))

\* The direction the camera drawn has behind it.
CameraBackward ==
    Normalize(VSub(TransformPoint(mathIn.portal_camera_transform, V3(0, 0, 1)),
                   mathIn.portal_camera_transform.translation))

\* h faces the camera from the projection's far distance in front of it.
IsFarHalfSpace(h) ==
    /\ Xyz(h) = CameraBackward
    /\ Evaluate(h, VSub(mathIn.portal_camera_transform.translation,
                        VScale(CameraBackward, mathIn.projection.far))) = RInt(0)

\* C11: in the three portal modes the left, right, bottom and top
\* half-spaces of the frustum returned are those of the clip matrix times the
\* inverse of the camera's pose, and the far half-space is the one at the
\* projection's far distance; with MaskedImageNoFrustum the near half-space
\* is the one of the clip matrix too.
C11_OnlyNearHalfSpaceDiffers ==
    FrustumComputed =>
        /\ \A i \in 1..4 : Extracted(mathOut[1].value[i], i)
        /\ IsFarHalfSpace(mathOut[1].value[6])
        /\ mathIn.portal_camera.portal_mode = NoFrustum => Extracted(mathOut[1].value[5], 5)

\* A frustum computed in half-space mode for a camera that is moved, rotated
\* and scaled, with the perspective projection: its near half-space is not
\* the projection's, the other five are.
C11_Witness ==
    /\ FrustumComputed
    /\ mathIn.portal_camera.portal_mode = DefaultPortalMode
    /\ mathIn.projection = PerspectiveProjection
    /\ mathIn.portal_camera_transform =
           ToGlobal(MkTransform(V3(MaxCoord, 0, 5), RotY345, V3(MaxScale, MaxScale, MaxScale)))
    /\ ~Extracted(mathOut[1].value[5], 5)
    /\ \A i \in 1..4 : Extracted(mathOut[1].value[i], i)
    /\ IsFarHalfSpace(mathOut[1].value[6])

\* The near half-space of the frustum computed.
NearHalfSpace == mathOut[1].value[5]

\* C12: in the default mode, MaskedImageHalfSpaceFrustum((None, false)), the
\* near half-space (n, d) computed has n . o + d = -0.00001 at the
\* destination's origin o, whatever the destination's and the camera's pose.
C12_DestinationOriginWithinEpsilon ==
    (FrustumComputed /\ mathIn.portal_camera.portal_mode = DefaultPortalMode)
    => Evaluate(NearHalfSpace, mathIn.destination_transform.translation) = RNeg(Epsilon)

\* The default mode with a destination that is moved off the origin, rotated
\* and scaled differently on each axis, and a camera elsewhere.
C12_Witness ==
    /\ FrustumComputed
    /\ mathIn.portal_camera.portal_mode = DefaultPortalMode
    /\ mathIn.destination_transform =
           ToGlobal(MkTransform(V3(0, 0, -1), RotY345, V3(1, MaxScale, 2)))
    /\ mathIn.portal_camera_transform.translation = V3(MaxCoord, 0, 5)
    /\ Evaluate(NearHalfSpace, mathIn.destination_transform.translation) = RNeg(Epsilon)
    /\ Evaluate(NearHalfSpace, mathIn.portal_camera_transform.translation) # RNeg(Epsilon)

\* get_frustum has been applied a second time, with Vec3::NEG_Z.extend(0.)
\* in place of no half-space.
ComputedWithNegZ == Len(mathOut) = 2 /\ mathOut[2].op = "get_frustum"

SphereMode == mathIn.portal_camera.portal_mode.kind = "MaskedImageSphereHalfSpaceFrustum"

\* The centre of the sphere: the destination's origin plus the origin given.
SphereCentre ==
    VAdd(mathIn.destination_transform.translation, mathIn.portal_camera.portal_mode.origin)

\* The plane of h passes through the centre minus the radius times h's
\* normal, and the centre is at the radius from it: h is tangent to the sphere.
TangentToSphere(h) ==
    /\ Evaluate(h, VSub(SphereCentre,
                        VScale(Xyz(h), mathIn.portal_camera.portal_mode.distance))) = RInt(0)
    /\ Evaluate(h, SphereCentre) = mathIn.portal_camera.portal_mode.distance

TickOrder ==
    {<<"propagate", "cameras">>, <<"cameras", "update_frusta">>,
     <<"update_frusta", "frusta">>, <<"frusta", "idle">>}

InPostUpdate == phase \in {"propagate", "cameras", "update_frusta", "frusta"}

\* The portal camera and the destination of unit pe are found by
\* update_portal_camera_frusta, change filter aside.
FrustaPartsFound(pe) ==
    /\ Has(portalParts[pe].portal_camera,
           {"PortalCamera", "GlobalTransform", "Frustum", "Projection", "Camera"})
    /\ FrustaDestinationQuery(portalParts[pe].destination)

\* update_frusta wrote the Frustum of portal camera pc in this tick.
HostWroteFrustum(pc) == pc \in gtChanged \/ pc \in projChanged

\* The Frustum get_frustum derives from the present pose of the portal
\* camera of unit pe.
FrustumOfPresentPose(pe) ==
    LET pc == portalParts[pe].portal_camera
    IN  ComputedFrustum("get_frustum", [portal_mode |-> portalMode[pc]], gt[pc],
                        gt[portalParts[pe].destination], projection[pc])

\* C21: within a tick the phases follow one another as propagation,
\* update_portal_cameras, the renderer's update_frusta,
\* update_portal_camera_frusta; and when update_portal_camera_frusta has
\* visited every unit, the Frustum of a portal camera that update_frusta
\* wrote in this tick is the one get_frustum derives from the camera's
\* present pose, which for a unit whose pose update_portal_cameras wrote in
\* this tick is that pose.
C21_CustomFrustumIsLastAndOfThisTick ==
    [][/\ (InPostUpdate /\ phase' # phase /\ phase' # "crashed")
           => <<phase, phase'>> \in TickOrder
       /\ \A pe \in UnitsFound :
             (FrustaPassOver /\ FrustaPartsFound(pe)) =>
                 /\ HostWroteFrustum(portalParts[pe].portal_camera)
                    => frustum[portalParts[pe].portal_camera] = FrustumOfPresentPose(pe)
                 /\ (Processed(pe) /\ passLog[pe].pose_written)
                    => frustum[portalParts[pe].portal_camera].portal_camera_transform
                       = ExpectedPose(pe)]_vars

\* The end of the frusta pass of a tick that followed a move of the main
\* camera: the pose of the first unit's portal camera was written in this
\* tick, and its Frustum is get_frustum's for that pose.
C21_Witness ==
    /\ FrustaPassOver
    /\ events = 1
    /\ Processed(PartsE(1))
    /\ passLog[PartsE(1)].pose_written
    /\ gt[Viewer] # PoseAt(1)
    /\ frustum[PortalCameraE(1)] = FrustumOfPresentPose(PartsE(1))
    /\ frustum[PortalCameraE(1)].portal_camera_transform = ExpectedPose(PartsE(1))

\* -------------------------------- properties: the back-reference check
\* The entities carrying a PortalPart, and those among them whose PortalPart
\* names an entity that is gone or carries no PortalParts.
PartsWithBackReference == {e \in alive : "PortalPart" \in comps[e]}

Orphaned(e) == ~(partOf[e] \in alive /\ "PortalParts" \in comps[partOf[e]])

\* The policy of the strategy for the kind of part the entity is.
OwnPolicy(e) ==
    CASE e[1] = "portal" -> strategy.portal
      [] e[1] = "destination" -> strategy.destination
      [] e[1] = "portal_camera" -> strategy.portal_camera

CheckCommands(e, op) == {i \in DOMAIN cmds : cmds[i].entity = e /\ cmds[i].op = op}

CheckWarnings(e) ==
    {i \in DOMAIN warns : warns[i].entity_type = "Portal Part"
                          /\ warns[i].error_message.entity = e}

\* check_portal_parts_back_references has visited every entity and returns.
CheckReturns == phase = "check" /\ todo = {} /\ phase' = "propagate"

\* C22: a run of check_portal_parts_back_references visits exactly the
\* entities whose PortalPart names a PortalParts entity that does not exist.
\* When it returns, each of them whose own kind's policy despawns is
\* despawned by a command decided by that policy, with a warning exactly when
\* the policy warns and a despawn of its children queued exactly when the
\* policy says so; each whose policy is Leave is alive, with no command and
\* no warning; a visit to one whose policy is Panic panics. An entity whose
\* PortalParts entity exists gets no command and no warning and is alive.
C22_OrphansHandledByOwnPolicy ==
    [][/\ (phase = "idle" /\ phase' = "check")
           => todo' = {e \in PartsWithBackReference : Orphaned(e)}
       /\ \A e \in PartsWithBackReference :
           /\ (phase = "check" /\ e \in todo /\ e \notin todo' /\ OwnPolicy(e) = "Panic")
               => phase' = "crashed"
           /\ (CheckReturns /\ Orphaned(e) /\ should_despawn(OwnPolicy(e)))
               => /\ e \notin alive'
                  /\ \E i \in CheckCommands(e, "despawn") : cmds[i].policy = OwnPolicy(e)
                  /\ (CheckWarnings(e) # {}) = should_warn(OwnPolicy(e))
                  /\ (CheckCommands(e, "despawn_related_children") # {})
                     = should_despawn_children(OwnPolicy(e))
           /\ (CheckReturns /\ Orphaned(e) /\ OwnPolicy(e) = "Leave")
               => /\ e \in alive'
                  /\ CheckCommands(e, "despawn") = {}
                  /\ CheckCommands(e, "despawn_related_children") = {}
                  /\ CheckWarnings(e) = {}
           /\ (CheckReturns /\ ~Orphaned(e))
               => /\ e \in alive'
                  /\ CheckCommands(e, "despawn") = {}
                  /\ CheckCommands(e, "despawn_related_children") = {}
                  /\ CheckWarnings(e) = {}]_vars

\* The check has returned in a world where the PortalParts entity of the
\* first unit was despawned and the strategy is the mixed one: the portal
\* and its child, the destination and the portal camera of that unit are
\* gone, and the parts of the other units are alive.
C22_Witness ==
    /\ phase = "propagate"
    /\ strategy = MixedStrategy
    /\ PartsE(1) \notin alive
    /\ {PortalE(1), ChildE(PortalE(1)), DestinationE(1), PortalCameraE(1)} \cap alive = {}
    /\ \A u \in Units \ {1} :
           {PortalE(u), DestinationE(u), PortalCameraE(u), PartsE(u)} \subseteq alive
    /\ Len(warns) = 2

\* -------------------------------------------------- properties: creation
\* The step is the creation of a portal that did not panic.
Creates(portal_entity) ==
    /\ portal_entity \in DOMAIN createPortal'
    /\ portal_entity \notin DOMAIN createPortal
    /\ panic' = <<>>

\* The PortalParts entities the step adds to the world.
NewPortalParts ==
    {e \in alive' : "PortalParts" \in comps'[e]} \ {e \in alive : "PortalParts" \in comps[e]}

\* After the step, entity e carries a PortalPart naming parts_entity.
LinkedBack(e, parts_entity) ==
    /\ e \in alive'
    /\ "PortalPart" \in comps'[e]
    /\ partOf'[e] = parts_entity

\* After the step that created it, the new PortalParts entity names the
\* portal, a destination and a portal camera that each name it back, and the
\* portal has lost CreatePortal and gained Portal and its material.
PartsLinked(portal_entity, parts_entity) ==
    /\ portalParts'[parts_entity].portal = portal_entity
    /\ LinkedBack(portalParts'[parts_entity].portal, parts_entity)
    /\ LinkedBack(portalParts'[parts_entity].destination, parts_entity)
    /\ LinkedBack(portalParts'[parts_entity].portal_camera, parts_entity)
    /\ "PortalDestination" \in comps'[portalParts'[parts_entity].destination]
    /\ "PortalCamera" \in comps'[portalParts'[parts_entity].portal_camera]
    /\ "CreatePortal" \notin comps'[portal_entity]
    /\ {"Portal", "MeshMaterial3d"} \subseteq comps'[portal_entity]
    /\ MaterialOf(portal_entity) \in materials'

\* No entity is left with a CreatePortal for a system to see.
NoCreatePortalLeft == \A e \in alive' : "CreatePortal" \notin comps'[e]

\* C23: the creation of a portal adds exactly one PortalParts entity, whose
\* portal, destination and portal camera each carry a PortalPart naming it,
\* whose main camera carries no PortalPart, and whose portal has lost
\* CreatePortal and gained Portal and the portal material; it is one step,
\* after which no entity carries a CreatePortal.
C23_CreationLinksEveryPart ==
    [][\A portal_entity \in CreateEntities :
          Creates(portal_entity) =>
              /\ \E parts_entity \in NewPortalParts :
                    /\ NewPortalParts = {parts_entity}
                    /\ PartsLinked(portal_entity, parts_entity)
                    /\ "PortalPart" \notin comps'[portalParts'[parts_entity].main_camera]
              /\ NoCreatePortalLeft]_vars

\* The same but for the main camera: what holds of every creation.
C23_HoldsButForTheMainCamera ==
    [][\A portal_entity \in CreateEntities :
          Creates(portal_entity) =>
              /\ \E parts_entity \in NewPortalParts :
                    /\ NewPortalParts = {parts_entity}
                    /\ PartsLinked(portal_entity, parts_entity)
              /\ NoCreatePortalLeft]_vars

\* The portal cameras that have a Projection.
ProjectedPortalCameras == {e \in DOMAIN projection : e[1] = "portal_camera"}

\* C24: the portal camera a creation spawns has the Projection the main
\* camera has at that moment; and no step changes the Projection of a portal
\* camera: not a change of the main camera's Projection, and not the update
\* that flags the portal camera's Projection as changed after a resize.
C24_ProjectionCopiedAtCreationOnly ==
    [][/\ \A portal_entity \in CreateEntities :
             Creates(portal_entity) =>
                 \A parts_entity \in NewPortalParts :
                     projection'[portalParts'[parts_entity].portal_camera]
                     = projection[portalParts'[parts_entity].main_camera]
       /\ \A pc \in ProjectedPortalCameras : projection'[pc] = projection[pc]]_vars

\* A frame has processed a unit whose main camera's Projection was changed
\* after the creation: the portal camera still has the Projection copied, an
\* orthographic one, which is not the default.
C24_Witness ==
    /\ phase = "frusta"
    /\ events = 1
    /\ \E pe \in UnitsFound :
        /\ Processed(pe)
        /\ portalParts[pe].main_camera = Viewer
        /\ projection[Viewer] = PerspectiveProjection
        /\ projection[portalParts[pe].portal_camera] = OrthographicProjection
        /\ frustum[portalParts[pe].portal_camera].projection = OrthographicProjection

\* The units created so far.
UnitsCreated == DOMAIN portalParts

\* update_portal_cameras fails for unit pe on its main camera.
FailsOnMainCamera(pe) ==
    \E i \in DOMAIN calls : calls[i] = [parts |-> pe, part |-> "Main Camera"]

\* C26: the main camera a PortalParts records is never an entity carrying
\* PortalCamera, and so update_portal_cameras never fails for a unit on a
\* main camera that exists.
C26_MainCameraIsNeverAPortalCamera ==
    \A pe \in UnitsCreated :
        /\ "PortalCamera" \notin comps[portalParts[pe].main_camera]
        /\ FailsOnMainCamera(pe) => portalParts[pe].main_camera \notin alive

\* What the code does: a unit whose recorded main camera carries PortalCamera
\* fails on its main camera when update_portal_cameras visits it.
C26_PortalCameraAsMainCameraFails ==
    \A pe \in UnitsCreated :
        (/\ phase \in {"cameras", "update_frusta", "frusta"}
         /\ passLog[pe].outcome # "none"
         /\ "PortalCamera" \in comps[portalParts[pe].main_camera]
         /\ PortalCamerasQuery(portalParts[pe].portal_camera))
        => FailsOnMainCamera(pe)

\* The entities the PortalParts entities that exist name as their portal,
\* destination or portal camera.
ReferencedParts ==
    UNION {{portalParts[pe].portal, portalParts[pe].destination, portalParts[pe].portal_camera} :
              pe \in UnitsFound}

\* C27: when check_portal_parts_back_references returns, the entities its
\* commands despawn are named by no PortalParts entity that exists.
C27_NoReferencedPartDespawnedByCheck ==
    [][CheckReturns => (alive \ alive') \cap ReferencedParts = {}]_vars

\* What the code does: the check goes by the PortalPart of the entity alone,
\* which names the PortalParts entity of the portal created last with it.
C27_CheckGoesByThePortalPartAlone ==
    [][CheckReturns =>
          \A e \in alive \ alive' : "PortalPart" \in comps[e] /\ Orphaned(e)]_vars

\* -------------------------------------------------- properties: teardown
\* A despawn command decided by the policy for unit pe has been applied: the
\* policy was executed for the unit by a system that has returned.
PolicyExecutedFor(pe) == \E c \in applied : c.parts = pe

\* update_portal_cameras has visited unit pe in this tick and handed it to
\* the despawn policy.
HandledAgain(pe) ==
    /\ passLog[pe].outcome = "failed"
    /\ \E i \in DOMAIN calls : calls[i].parts = pe

\* C25: while update_portal_cameras runs in a tick, a unit for which the
\* despawn policy was executed before is not visited by it and is not
\* handed to the despawn policy.
C25_TornDownUnitIsNeverHandledAgain ==
    \A pe \in PartsEntities :
        (phase = "cameras" /\ PolicyExecutedFor(pe))
        => (passLog[pe].outcome = "none" /\ ~HandledAgain(pe))

\* What the code does: the PortalParts entity of a unit is never despawned by
\* a command of the crate, so that the unit is visited in every later tick.
C25_PortalPartsEntityIsNeverDespawned ==
    \A c \in applied : c.entity \notin PartsEntities

\* ------------------------------------- properties: the pose at tick end
\* The pose get_portal_camera_transform gives for unit pe with mirror m.
ExpectedPoseWith(pe, m) ==
    get_portal_camera_transform(gt[portalParts[pe].main_camera], gt[portalParts[pe].portal],
                                gt[portalParts[pe].destination], m)

\* The tick is over for unit pe: update_portal_cameras resolved its four
\* parts, the portal's pose is invertible, and the last system of PostUpdate
\* has visited every unit.
TickOverFor(pe) ==
    /\ FrustaPassOver
    /\ Processed(pe)
    /\ Resolves(pe)
    /\ Invertible(gt[portalParts[pe].portal])

\* C28: at the end of a tick in which the four parts of a unit resolve and
\* the portal's pose is invertible, the GlobalTransform of the portal camera
\* is get_portal_camera_transform of the present poses of the main camera,
\* the portal and the destination and of the present PortalDestination.mirror,
\* and its Transform is that pose as a Transform; a tick before which only
\* the mirror was set included.
C28_PoseIsOfPresentMirror ==
    \A pe \in UnitsFound :
        TickOverFor(pe) =>
            /\ gt[portalParts[pe].portal_camera] = ExpectedPose(pe)
            /\ transform[portalParts[pe].portal_camera] = ComputeTransform(ExpectedPose(pe))

\* What holds instead: the pose is get_portal_camera_transform of the present
\* poses and of the mirror of some earlier tick.
C28_PoseIsOfSomeMirror ==
    \A pe \in UnitsFound :
        TickOverFor(pe) =>
            \E m \in MirrorSettings :
                /\ gt[portalParts[pe].portal_camera] = ExpectedPoseWith(pe, m)
                /\ transform[portalParts[pe].portal_camera]
                   = ComputeTransform(ExpectedPoseWith(pe, m))

\* ---------------------------------- properties: the frustum at tick end
\* The half-spaces of a Frustum get_frustum wrote.
FrustumValue(f) ==
    get_frustum(f.portal_camera, f.portal_camera_transform, f.destination_transform,
                f.projection)

\* The half-spaces get_frustum gives for unit pe with portal mode m.
ExpectedFrustumWith(pe, m) ==
    get_frustum([portal_mode |-> m], gt[portalParts[pe].portal_camera],
                gt[portalParts[pe].destination], projection[portalParts[pe].portal_camera])

\* C29: at the end of a tick in which the portal camera and the destination
\* of a unit resolve, the Frustum of the portal camera is get_frustum of the
\* present poses of the portal camera and of the destination, of the present
\* Projection and of the present PortalCamera.portal_mode; a tick before
\* which only portal_mode was set included.
C29_FrustumIsOfPresentPortalMode ==
    \A pe \in UnitsFound :
        (FrustaPassOver /\ FrustaPartsFound(pe)) =>
            /\ FrustumRefreshed(pe)
            /\ FrustumValue(frustum[portalParts[pe].portal_camera])
               = ExpectedFrustumWith(pe, portalMode[portalParts[pe].portal_camera])

\* What holds instead: the Frustum is get_frustum of the present poses and
\* Projection and of the portal mode of some earlier tick.
C29_FrustumIsOfSomePortalMode ==
    \A pe \in UnitsFound :
        (FrustaPassOver /\ FrustaPartsFound(pe)) =>
            /\ FrustumRefreshed(pe)
            /\ \E m \in PortalModeSettings :
                FrustumValue(frustum[portalParts[pe].portal_camera])
                = ExpectedFrustumWith(pe, m)

\* ------------------------------------- properties: the resize reported
\* The step changes the size of the portal image of unit pe.
ImageSizeChanged(pe) ==
    images'[ImageOf(portalParts[pe].portal_camera)]
    # images[ImageOf(portalParts[pe].portal_camera)]

\* The portal image of unit pe has not the size of the viewport.
SizesDiffer(pe) ==
    /\ ImageSize(pe) # <<>>
    /\ get_viewport_size # <<>>
    /\ ImageSize(pe) # get_viewport_size

\* C30: in the iteration of update_portal_cameras for a unit whose parts
\* resolve, resize_image_if_needed reports a resize, and the Projection of
\* the portal camera is flagged changed for it, exactly when the call changed
\* the size of the portal image.
C30_ResizedExactlyWhenImageChanged ==
    [][\A pe \in PartsEntities :
          ResolvedUnitStep(pe) =>
              /\ passLog'[pe].resized <=> ImageSizeChanged(pe)
              /\ passLog'[pe].proj_flagged <=> ImageSizeChanged(pe)]_vars

\* What holds instead: a resize is reported exactly when the image had not
\* the viewport's size before the call, and the image is changed only by a
\* call that reports a resize.
C30_ResizedExactlyWhenSizesDiffer ==
    [][\A pe \in PartsEntities :
          ResolvedUnitStep(pe) =>
              /\ passLog'[pe].resized <=> SizesDiffer(pe)
              /\ passLog'[pe].proj_flagged <=> SizesDiffer(pe)
              /\ ImageSizeChanged(pe) => passLog'[pe].resized]_vars

\* ------------------------------------------ properties: the entity command
\* The step applies DespawnPortalPartsEntityCommand to entity e.
CommandAppliedTo(e) == phase = "idle" /\ calls' = Append(calls, CommandCall(e))

\* The units found of which e is the portal, the destination or the portal
\* camera, or the PortalParts entity.
UnitsOf(e) ==
    {pe \in UnitsFound :
        \/ e = pe
        \/ e \in {portalParts[pe].portal, portalParts[pe].destination,
                  portalParts[pe].portal_camera}}

\* The portal camera, destination and portal of unit pe that exist, in the
\* order despawn_portal_parts goes through them.
ExistingParts(pe) ==
    SelectSeq(<<[entity |-> portalParts[pe].portal_camera, entity_type |-> "Portal Camera"],
                [entity |-> portalParts[pe].destination, entity_type |-> "Destination"],
                [entity |-> portalParts[pe].portal, entity_type |-> "Portal"]>>,
              LAMBDA part : part.entity \in alive)

\* The step is the teardown of unit pe under the default strategy: the portal
\* camera, the destination and the portal that exist are despawned, each with
\* a warning, the main camera is left, and nothing panics.
DefaultTeardown(pe) ==
    LET existing == ExistingParts(pe)
    IN  /\ alive' = alive \ UNION {Despawned(existing[i].entity) : i \in DOMAIN existing}
        /\ Len(warns') = Len(warns) + Len(existing)
        /\ \A i \in DOMAIN existing :
              /\ warns'[Len(warns) + i].entity_type = existing[i].entity_type
              /\ warns'[Len(warns) + i].error_message.text
                 = "is a part of portal parts being despawned but should have been despawned before"
        /\ \A i \in DOMAIN existing :
              \E c \in applied' \ applied : c.op = "despawn" /\ c.entity = existing[i].entity
        /\ \A c \in applied' \ applied : \E i \in DOMAIN existing : c.entity = existing[i].entity
        /\ (portalParts[pe].main_camera \in alive') = (portalParts[pe].main_camera \in alive)
        /\ panic' = <<>>
        /\ phase' = "idle"

\* The step despawns nothing and logs the warning of the command.
OnlyWarns(e) ==
    /\ alive' = alive
    /\ applied' = applied
    /\ Len(warns') = Len(warns) + 1
    /\ warns'[Len(warns')].entity_type = "command"
    /\ warns'[Len(warns')].error_message.entity = e
    /\ panic' = <<>>
    /\ phase' = "idle"

\* C31: DespawnPortalPartsEntityCommand applied to the portal, the
\* destination or the portal camera of a unit, or to its PortalParts entity,
\* is the teardown of that unit under the default strategy, the same
\* whichever of the four it is applied to; applied to another entity (the
\* main camera, a child of a part) or to a part whose PortalParts entity no
\* longer exists, it despawns nothing and logs one warning.
C31_EntityCommandTearsDownOrWarns ==
    [][\A e \in CommandEntities :
          CommandAppliedTo(e) =>
              IF UnitsOf(e) # {}
              THEN \A pe \in UnitsOf(e) : DefaultTeardown(pe)
              ELSE OnlyWarns(e)]_vars

\* The command has been applied to the portal of the first unit after the
\* PortalParts entity of the unit was despawned: the portal is still there
\* and the warning is logged.
C31_Witness ==
    /\ phase = "idle"
    /\ calls = <<CommandCall(PortalE(1))>>
    /\ PartsE(1) \notin alive
    /\ "PortalPart" \in comps[PortalE(1)]
    /\ {PortalE(1), DestinationE(1), PortalCameraE(1)} \subseteq alive
    /\ Len(warns) = 1
    /\ warns[1].entity_type = "command"

\* ------------------------------------- properties: the switched normal
HalfSpaceMode == mathIn.portal_camera.portal_mode.kind = "MaskedImageHalfSpaceFrustum"

\* The normal before the switch, in world space: the normal given, rotated
\* as the destination is, or the destination's forward axis.
UnswitchedNormal ==
    IF mathIn.portal_camera.portal_mode.half_space # <<>>
    THEN MMulVec(Rotation(mathIn.destination_transform),
                 Xyz(mathIn.portal_camera.portal_mode.half_space[1]))
    ELSE GlobalForward(mathIn.destination_transform)

\* From the destination's origin to the portal camera.
CameraFromDestination ==
    VSub(mathIn.portal_camera_transform.translation, mathIn.destination_transform.translation)

\* The side of the camera: the sign of normal . (camera - destination).
CameraSide == Sign(VDot(UnswitchedNormal, CameraFromDestination))

\* The normal of the near half-space computed is opposite to the normal
\* before the switch, or along it.
NormalNegated == Sign(VDot(Xyz(NearHalfSpace), UnswitchedNormal)) = -1

NormalKept == Sign(VDot(Xyz(NearHalfSpace), UnswitchedNormal)) = 1

TeardownOrder ==
    <<[kind |-> "portal_camera", entity_type |-> "Portal Camera"],
      [kind |-> "destination", entity_type |-> "Destination"],
      [kind |-> "portal", entity_type |-> "Portal"],
      [kind |-> "main_camera", entity_type |-> "Main Camera"]>>

\* The panics a teardown raised (not the unwrap of the resize step, nor the
\* back-reference check).
PolicyPanics ==
    {i \in DOMAIN panic :
        \E j \in DOMAIN TeardownOrder : panic[i].entity_type = TeardownOrder[j].entity_type}

\* The panic was raised by a teardown no resolution failure called for.
PanicOfHealthyTeardown(i) == panic[i].error_message.parts = <<"none", 0>>

\* C33: a Panic policy raises a panic only for the part that is missing: no
\* panic comes from the teardown of a unit by despawn_portal_parts without a
\* resolution failure, and the panic of a resolution failure is raised for
\* the kind of the part that failed to resolve.
C33_PanicOnlyForTheMissingPart ==
    \A i \in PolicyPanics :
        /\ ~PanicOfHealthyTeardown(i)
        /\ panic[i].entity_type = panic[i].error_message.part

\* What holds instead: a panic is raised by the first kind, in the order
\* portal camera, destination, portal, main camera, whose policy is Panic,
\* whether that part exists or not and whichever part failed to resolve.
C33_PanicAtFirstKindOfPanicPolicy ==
    \A i \in PolicyPanics :
        \E j \in DOMAIN TeardownOrder :
            /\ panic[i].entity_type = TeardownOrder[j].entity_type
            /\ strategy[TeardownOrder[j].kind] = "Panic"
            /\ \A k \in 1..(j - 1) : strategy[TeardownOrder[k].kind] # "Panic"

\* ------------------------------------------ properties: the legacy driver
\* The legacy update_portal_cameras has ended its pass over the portal cameras.
LegacyPassOver == phase = "legacy" /\ todo = {}

LegacyFailed == {pe \in PartsEntities : passLog[pe].outcome = "failed"}

\* C34: in a pass of the legacy update_portal_cameras in which a portal
\* camera's main camera, portal or destination fails to resolve, every other
\* portal camera whose parts resolve is still updated.
C34_LegacyFailureDoesNotStopPass ==
    \A pe \in PartsEntities :
        (LegacyPassOver /\ LegacyFailed # {} /\ LegacyResolves(pe))
        => passLog[pe].outcome = "processed"

\* What holds instead: the iteration that fails to resolve a part is the
\* last of the pass.
C34_LegacyPassEndsAtFirstFailure ==
    [][(phase = "legacy" /\ \E pe \in PartsEntities :
            passLog'[pe].outcome = "failed" /\ passLog[pe].outcome # "failed")
       => (todo' = {} /\ Cardinality(LegacyFailed) = 0)]_vars

\* ------------------------------------- properties: the policy variants
\* Exactly one of the three holds.
ExactlyOne(a, b, c) == (a /\ ~b /\ ~c) \/ (~a /\ b /\ ~c) \/ (~a /\ ~b /\ c)

\* Every variant despawns, panics or is Leave, one of the three only; the
\* variants that warn and those that despawn the children despawn.
VariantsPartitioned ==
    \A policy \in Policies :
        /\ ExactlyOne(should_despawn(policy), should_panic(policy), policy = "Leave")
        /\ should_warn(policy) => should_despawn(policy)
        /\ should_despawn_children(policy) => should_despawn(policy)

\* A system takes the step of one unit, or of one orphan part.
PartStep == phase \in {"check", "cameras", "frusta"} /\ todo' # todo

\* The commands the step queues and the warnings of despawn_portal_part it logs.
QueuedByStep == {i \in DOMAIN cmds' : i > Len(cmds)}

PartWarningsOfStep ==
    {i \in DOMAIN warns' :
        /\ i > Len(warns)
        /\ warns'[i].entity_type
           \in {"Portal Camera", "Destination", "Portal", "Main Camera", "Portal Part"}
        /\ warns'[i].error_message.text # "isn't a portal, a destination or a portal camera"}

\* The step queues the despawn of the part of that type of that unit.
DespawnQueued(entity_type, parts_entity) ==
    \E i \in QueuedByStep :
        /\ cmds'[i].op = "despawn"
        /\ cmds'[i].entity_type = entity_type
        /\ cmds'[i].parts = parts_entity

\* C35: every PortalPartDespawnStrategy variant despawns, panics or is
\* Leave, one of the three only, and the variants that warn or despawn the
\* children are variants that despawn; so in every step of a system the
\* part despawn_portal_part panics for is not despawned by it, every warning
\* it logs comes with the despawn of the part warned about, every
\* despawn_related::<Children> is followed by the despawn of the same entity,
\* and every command is decided by a variant that despawns.
C35_VariantsDespawnPanicOrLeave ==
    [][/\ VariantsPartitioned
       /\ PartStep =>
           /\ \A i \in PartWarningsOfStep :
                 DespawnQueued(warns'[i].entity_type, warns'[i].error_message.parts)
           /\ \A i \in QueuedByStep :
                 /\ should_despawn(cmds'[i].policy)
                 /\ cmds'[i].op = "despawn_related_children"
                    => /\ should_despawn_children(cmds'[i].policy)
                       /\ i + 1 \in QueuedByStep
                       /\ cmds'[i + 1].op = "despawn"
                       /\ cmds'[i + 1].entity = cmds'[i].entity
           /\ \A i \in DOMAIN panic' :
                 (panic = <<>> /\ panic'[i].entity_type # "unwrap")
                 => ~DespawnQueued(panic'[i].entity_type, panic'[i].error_message.parts)]_vars

\* update_portal_cameras has handled a unit whose portal was despawned, under
\* the policy that warns and despawns with the children: nothing is queued
\* nor logged for the portal, and for the destination a warning, the despawn
\* of its children and its despawn are.
C35_Witness ==
    /\ phase = "cameras"
    /\ strategy.destination = "WarnThenDespawnWithChildren"
    /\ passLog[PartsE(1)].outcome = "failed"
    /\ PortalE(1) \notin alive
    /\ \A i \in DOMAIN cmds : cmds[i].entity # PortalE(1)
    /\ \A i \in DOMAIN warns : warns[i].entity_type # "Portal"
    /\ \E i \in DOMAIN warns : warns[i].entity_type = "Destination"
    /\ \E i \in DOMAIN cmds :
        /\ i + 1 \in DOMAIN cmds
        /\ cmds[i].op = "despawn_related_children"
        /\ cmds[i].entity = DestinationE(1)
        /\ cmds[i + 1].op = "despawn"
        /\ cmds[i + 1].entity = DestinationE(1)

====
